---------------------------- MODULE Spec2Model ----------------------------
(***************************************************************************)
(* Verification model of the revera research backend (backend/app).        *)
(*                                                                         *)
(* These state machines share this module:                                 *)
(*   Spec / FairSpec : one run of the LangGraph research graph             *)
(*                     (agents/graph_builder.py, agents/graph_nodes.py)    *)
(*   SearchSpec      : one call of HybridSearchService.search_with_rrf     *)
(*                     (services/search.py)                                *)
(*   StreamSpec      : one session of an orchestrator entry point or of a  *)
(*                     chat SSE stream (agents/orchestrator.py,            *)
(*                     api/chats.py)                                       *)
(*   SynthesisSpec   : one call of SynthesisAgent.run or run_stream        *)
(*                     (agents/synthesis.py)                               *)
(*   PlannerSpec     : one call of PlannerAgent.run (agents/planner.py,    *)
(*                     agents/base.py, agents/agent_models.py)             *)
(*   NormalizeSpec   : Orchestrator._normalize_sources applied to its own  *)
(*                     output (agents/orchestrator.py)                     *)
(*   WebSearchSpec   : one call of WebSearchAgent.run                      *)
(*                     (agents/web_search.py)                              *)
(*   CleanupSpec     : sessions writing agent memories, then one call of   *)
(*                     ChatCleanupService.delete_chat_completely           *)
(*                     (services/chat_cleanup.py, services/agent_memory.py)*)
(*   ParseSpec       : one call of BaseAgent._parse_json_response          *)
(*                     (agents/base.py)                                    *)
(*   EmbedSpec       : one call of GeminiClient.embed_texts or             *)
(*                     embed_texts_async, alone or from ingest_pdf         *)
(*                     (llm/gemini.py, services/ingestion.py)              *)
(*   IngestSpec      : one call of ImageIngestionService.ingest_image      *)
(*                     (services/image_ingestion.py)                       *)
(*   AccessSpec      : one request to a chat-scoped endpoint               *)
(*                     (api/chats.py, services/chat_cleanup.py)            *)
(* Each specification leaves the variables of the other machines at their  *)
(* initial values.                                                         *)
(***************************************************************************)
EXTENDS Integers, Sequences, FiniteSets, TLC

VARIABLES
    \* ---- research graph (ResearchState and the engine's schedule) ----
    node,                \* node name -> "idle" | "ready" | "running" | "done"
    use_web,
    execution_plan,      \* set of step tools, or NoPlan
    internal_sources,
    web_sources,
    generated_image_url,
    synthesis_result,
    verification,        \* verification_status of the last critic pass
    agent_timeline,
    iteration_count,
    needs_refinement,
    max_iterations,
    graph_done,          \* the conditional edge reached END
    critic_runs,         \* history: executions of critic_node
    synthesis_runs,      \* history: executions of synthesis_node
    image_gen_url,       \* history: the public URL image_gen_node returned
    image_gen_result,    \* history: the result of the timeline entry image_gen_node returned
    answer_chunks,       \* answer_chunk contents dispatched by the last synthesis pass
    synthesis_answer,    \* synthesis_result["answer"], as its pieces
    node_starts,         \* history: node name -> times the engine started it
    write_log,           \* history: per finished node, the keys of the dict it returned
    fan_out_updates,     \* history: fan-out node -> <<the dict it returned>>
    \* ---- HybridSearchService.search_with_rrf ----
    s_pc,                \* "filter" | "dense" | "sparse" | "fuse" | "done"
    s_user_id,           \* the calling user
    s_document_ids,      \* [given |-> BOOLEAN, ids |-> set of document ids]
    s_top_k,
    s_filter,            \* filter_ built from must_conditions
    s_queries,           \* query_points calls issued so far
    dense_points,        \* dense_results.points, as point ids in rank order
    sparse_points,       \* sparse_results.points
    search_results,      \* the returned list of SearchResult
    \* ---- one orchestrator / chat-stream session ----
    o_entry,             \* the entry point serving the request
    o_pc,                \* position in the entry point's code
    o_request,           \* [use_web, document_ids] as submitted by the caller
    events,              \* the caller-facing event stream so far
    session,             \* the research_sessions row: [status, result]
    o_outcome,           \* how the entry point ended
    retrieval_docs,      \* document_ids handed to RetrievalAgent.run
    o_plan_web,          \* the plan has a step with tool = web
    o_timeline,          \* agent_timeline collected by the entry point
    o_verification,      \* verification_status of the session
    o_chunks,            \* chunks streamed by the current synthesis pass
    memories,            \* agents with an episodic memory for this session
    message_row,         \* a messages row was inserted for this request
    chat_title_set,      \* the chats row got its title
    o_exceptions,        \* history: exceptions raised after the row was created
    o_answer,            \* the answer as streamed, as returned and as stored
    session_writes,      \* history: the statuses written to the row, in order
    o_fail_write,        \* history: "none" | "ok" | "failed", the handler's status write
    o_internal_sources,  \* internal_sources of the streaming entry point
    o_web_sources,       \* web_sources of the streaming entry point
    all_sources,         \* all_sources of the streaming entry point
    \* ---- one call of SynthesisAgent.run / run_stream ----
    y_mode,              \* "run" | "run_stream"
    y_pc,                \* "start" | "stream" | "finish" | "done"
    internal_context,    \* input.context["internal_sources"]
    web_context,         \* input.context["web_sources"]
    y_image_url,         \* input.context["generated_image_url"] is set
    y_images,            \* input.images
    image_map,           \* the entries of source_map under the keys "image_<k>"
    source_map,          \* ordinal -> the source it numbers
    full_answer,         \* the answer text: per piece, the ordinals it cites
    y_chunks,            \* items read from the LLM stream
    y_items,             \* types of the items yielded by run_stream
    y_result,            \* the returned result dict; <<>> before the return
    \* ---- one call of PlannerAgent.run ----
    p_pc,                \* "parse" | "validate" | "convert" | "done"
    p_response,          \* the LLM response: [kind, has_steps, steps]
    plan_dict,           \* [has_steps, steps]: the dict the plan is built from
    p_plan,              \* steps of the returned ExecutionPlan, as tools
    p_outcome,           \* "none" | "returned" | "raised"
    \* ---- the memory store and one call of delete_chat_completely ----
    c_pc,                \* "sessions" | "memories" | "rows" | "done"
    memory_store,        \* namespaces of the store that hold an item
    chat_rows,           \* the chats table: <<user_id, chat_id>> per row
    c_user_id,           \* user_id argument of delete_chat_completely
    c_chat_id,           \* chat_id argument of delete_chat_completely
    c_outcome,           \* "none" | "deleted" | "not_found" | "error"
    \* ---- one round trip through Orchestrator._normalize_sources ----
    n_pc,                \* "start" | "once" | "done"
    n_internal,          \* the internal_sources argument: a list of dicts
    n_web,               \* the web_sources argument: a list of dicts
    n_once,              \* the normalized list
    n_twice,             \* the normalized list, split by type and normalized again
    \* ---- one call of WebSearchAgent.run ----
    w_pc,                \* "search" | "gather" | "rank" | "format" | "done"
    w_configured,        \* self.tavily is set
    w_constraints,       \* input.constraints: <<>> or <<max_web_results>>
    w_query_type,        \* query_expansion["query_type"]
    w_tasks,             \* search_tasks with their state, primary first
    w_finished,          \* indices of the tasks in the order they ended
    w_all_sources,       \* all_sources: the results of the searches, in order
    w_unique_sources,    \* unique_sources
    w_result,            \* the returned result list
    \* ---- one call of BaseAgent._parse_json_response ----
    j_pc,                \* the strategy about to run, "raise" or "done"
    j_response,          \* what each strategy makes of the response
    j_e,                 \* whether the local name e is bound
    j_outcome,           \* "none" | "returned" | the type of the raised exception
    \* ---- embeddings of a list of texts ----
    e_entry,             \* "embed_texts" | "embed_texts_async" | "ingest_pdf"
    e_pc,                \* "embed" | "points" | "done"
    e_texts,             \* the input texts (chunk_texts in ingest_pdf)
    e_start,             \* the batch loop's start index
    e_embeddings,        \* the list being returned
    e_points,            \* the points ingest_pdf upserts
    e_outcome,           \* "none" | "returned" | "upserted" | "IndexError"
    \* ---- ingestion of one uploaded image ----
    m_pc,                \* "validate" | "store" | "describe" | "insert" | "index" | "done"
    m_request,           \* mime_type, too_large, chat_id
    m_storage_path,      \* None until the upload returned its path
    m_description,
    m_storage,           \* paths of the objects in the storage bucket
    m_documents,         \* rows of the documents table
    m_points,            \* payloads of the points in the index
    m_outcome,           \* "none" | "returned" | the exception raised
    \* ---- one request to a chat-scoped endpoint ----
    a_pc,                \* "verify" | "act" | "done"
    a_op,                \* the endpoint
    a_user_id,           \* the authenticated caller
    a_chat_id,           \* the chat_id path parameter
    a_chats,             \* rows of the chats table
    a_before,            \* the chats table when the request arrived
    a_effects,           \* what the request read or started
    a_response           \* "none" | "200" | "404" | "500"

gvars == <<node, use_web, execution_plan, internal_sources, web_sources,
           generated_image_url, synthesis_result, verification,
           agent_timeline, iteration_count, needs_refinement,
           max_iterations, graph_done, critic_runs, synthesis_runs,
           image_gen_url, image_gen_result, answer_chunks, synthesis_answer, node_starts,
           write_log, fan_out_updates>>

svars == <<s_pc, s_user_id, s_document_ids, s_top_k, s_filter, s_queries,
           dense_points, sparse_points, search_results>>

ovars == <<o_entry, o_pc, o_request, events, session, o_outcome,
           retrieval_docs, o_plan_web, o_timeline, o_verification, o_chunks,
           memories, message_row, chat_title_set, o_exceptions,
           o_fail_write, o_internal_sources, o_web_sources, all_sources,
           session_writes, o_answer>>

yvars == <<y_mode, y_pc, internal_context, web_context, y_image_url,
           y_images, image_map,
           source_map, full_answer, y_chunks, y_items, y_result>>

pvars == <<p_pc, p_response, plan_dict, p_plan, p_outcome>>

cvars == <<c_pc, memory_store, chat_rows, c_user_id, c_chat_id, c_outcome>>

nvars == <<n_pc, n_internal, n_web, n_once, n_twice>>

wvars == <<w_pc, w_configured, w_constraints, w_query_type, w_tasks,
           w_finished, w_all_sources, w_unique_sources, w_result>>

jvars == <<j_pc, j_response, j_e, j_outcome>>

evars == <<e_entry, e_pc, e_texts, e_start, e_embeddings, e_points, e_outcome>>

mvars == <<m_pc, m_request, m_storage_path, m_description, m_storage, m_documents, m_points, m_outcome>>

avars == <<a_pc, a_op, a_user_id, a_chat_id, a_chats, a_before, a_effects, a_response>>

vars == <<gvars, svars, ovars, yvars, pvars, cvars, nvars, wvars, jvars, evars, mvars, avars>>

\* What each machine leaves alone.
nongraph == <<svars, ovars, yvars, pvars, cvars, nvars, wvars, jvars, evars, mvars, avars>>

nonsearch == <<gvars, ovars, yvars, pvars, cvars, nvars, wvars, jvars, evars, mvars, avars>>

nonstream == <<gvars, svars, yvars, pvars, cvars, nvars, wvars, jvars, evars, mvars, avars>>

nonsynthesis == <<gvars, svars, ovars, pvars, cvars, nvars, wvars, jvars, evars, mvars, avars>>

nonplanner == <<gvars, svars, ovars, yvars, cvars, nvars, wvars, jvars, evars, mvars, avars>>

noncleanup == <<gvars, svars, ovars, yvars, pvars, nvars, wvars, jvars, evars, mvars, avars>>

nonnormalize == <<gvars, svars, ovars, yvars, pvars, cvars, wvars, jvars, evars, mvars, avars>>

nonwebsearch == <<gvars, svars, ovars, yvars, pvars, cvars, nvars, jvars, evars, mvars, avars>>

nonparse == <<gvars, svars, ovars, yvars, pvars, cvars, nvars, wvars, evars, mvars, avars>>

nonembed == <<gvars, svars, ovars, yvars, pvars, cvars, nvars, wvars, jvars, mvars, avars>>

noningest == <<gvars, svars, ovars, yvars, pvars, cvars, nvars, wvars, jvars, evars, avars>>

nonaccess == <<gvars, svars, ovars, yvars, pvars, cvars, nvars, wvars, jvars, evars, mvars>>

----------------------------------------------------------------------------
(* Bounds of the model *)

MaxTexts == 3

BatchSize == 2

MaxIterationsBound == 2

MaxTopK == 2

MaxChunks == 2

MaxOrdinal == 3

MaxSources == 1

MaxImages == 1

MaxSteps == 2

MaxSourceList == 2

MaxWebSources == 3

MaxWebLimit == 2

MaxPerSearch == 1

----------------------------------------------------------------------------
(* Research graph: agents/graph_builder.py, agents/graph_nodes.py *)

Nodes == {"planning", "retrieval", "web_search", "image_gen", "synthesis", "critic"}

FanOutNodes == {"retrieval", "web_search", "image_gen"}

Tools == {"rag", "web", "synthesis", "verification", "image_gen"}

NoPlan == {"<none>"}

None == "None"

\* Plans PlannerAgent.run may hand to the graph: the steps the LLM listed.
PlannerPlans == SUBSET Tools

\* verification_status values CriticAgent.run returns: the LLM's own value,
\* "partial" when the field is missing, "unverified" on a parse failure.
CriticStatuses == {"verified", "partially_verified", "partial", "low", "failed", "unverified"}

\* critic_node's default verification when CriticAgent.run raises.
CriticFailedStatus == "unknown"

RetrievalResults == {<<>>, <<"chunk1">>}

WebResults == {<<>>, <<"url1">>}

ImageOutcomes == {"url", "no_images", "error"}

\* critic_node, lines 524-527: the refinement decision.
NeedsRefinementNoCap(current_iteration, max_iter, confidence) ==
    confidence \in {"low", "failed", "unverified"}

NeedsRefinementOffByOne(current_iteration, max_iter, confidence) ==
    /\ current_iteration <= max_iter
    /\ confidence \in {"low", "failed", "unverified"}

NeedsRefinement(current_iteration, max_iter, confidence) ==
    /\ current_iteration < max_iter
    /\ confidence \in {"low", "failed", "unverified"}

\* critic_node, line 537: the iteration counter written back.
NextIterationStuck(current_iteration) == current_iteration

NextIterationCount(current_iteration) == current_iteration + 1

\* should_refine: the conditional edge after critic.
should_refine_inverted(refine) == IF refine THEN "end" ELSE "synthesis"

should_refine(refine) == IF refine THEN "synthesis" ELSE "end"

\* Fan-in at synthesis: it becomes runnable once every predecessor is done.
FanInStalled(n) == n

FanInAny(n) == [n EXCEPT !["synthesis"] = "ready"]

FanIn(n) ==
    IF \A m \in FanOutNodes : n[m] = "done"
    THEN [n EXCEPT !["synthesis"] = "ready"]
    ELSE n

\* web_search_node, lines 146-153: the search runs unless the user disabled
\* it or the plan has no web step.
WebSearchRuns(use_web_flag, plan) == use_web_flag /\ "web" \in plan

\* ResearchState: the keys of the state schema. The graph keeps one channel
\* per key; a key a node returns that the schema does not declare has no
\* channel and is dropped, and no node can read it back.
StateKeys == {"query", "user_id", "session_id", "use_web", "document_ids",
              "chat_id", "thread_id", "execution_plan", "internal_sources",
              "web_sources", "tavily_answer", "image_contexts",
              "synthesis_result", "verification", "agent_timeline",
              "iteration_count", "needs_refinement", "max_iterations",
              "memory_context"}

\* ResearchState reducers: agent_timeline is Annotated[list, add], every
\* other key keeps the last value written.
ReduceReplaceAll(key, old, new) == IF key \notin StateKeys THEN old ELSE new

Reduce(key, old, new) ==
    IF key \notin StateKeys THEN old
    ELSE IF key = "agent_timeline" THEN old \o new
    ELSE new

\* Pieces of an answer: LLM text, the apology of the except clause, and the
\* markdown image link f"\n\n![Generated Image]({generated_image_url})".
TextPiece == <<"text", "llm">>

FallbackPiece == <<"text", "apology">>

ImageMarkdown(url) == <<"image_markdown", url>>

ImagePieces(url) == IF url = None THEN <<>> ELSE <<ImageMarkdown(url)>>

\* run_stream: the answer_chunk contents it yields, in order, for a stream
\* of n text chunks that may raise at its end.
RunStreamChunks(n, raised, url) ==
    [i \in 1..n |-> TextPiece]
    \o (IF raised THEN <<FallbackPiece>> ELSE <<>>)
    \o ImagePieces(url)

\* run_stream: result["answer"].
RunStreamAnswer(n, raised, url) ==
    (IF raised THEN <<FallbackPiece>> ELSE [i \in 1..n |-> TextPiece])
    \o ImagePieces(url)

\* The dicts the nodes return.
PlanningUpdate(plan) ==
    [execution_plan |-> plan, agent_timeline |-> <<"planner">>]

RetrievalUpdateClobbersWeb(res) ==
    [internal_sources |-> res, web_sources |-> <<>>,
     agent_timeline |-> <<"retrieval">>]

RetrievalUpdate(res) ==
    [internal_sources |-> res, agent_timeline |-> <<"retrieval">>]

WebSearchSkipped == [web_sources |-> <<>>, agent_timeline |-> <<>>]

WebSearchUpdate(res) ==
    [web_sources |-> res, tavily_answer |-> "-",
     agent_timeline |-> <<"web_search">>]

ImageGenSkipped == [agent_timeline |-> <<>>]

\* The result of the timeline entry for each way the node ends: the URL
\* (282-292), {"status": "no_images_returned"} (252-264) or
\* {"error": str(e)} (294-307).
ImageGenEntryResult(o) ==
    CASE o = "url" -> "url"
      [] o = "no_images" -> "no_images_returned"
      [] OTHER -> "error"

ImageGenUpdateSilent(url) ==
    [generated_image_url |-> url, generated_image_storage_path |-> url,
     agent_timeline |-> IF url = None THEN <<>> ELSE <<"image_gen">>]

ImageGenUpdate(url) ==
    [generated_image_url |-> url, generated_image_storage_path |-> url,
     agent_timeline |-> <<"image_gen">>]

SynthesisUpdateResetsSources(result) ==
    [synthesis_result |-> result, web_sources |-> <<>>,
     agent_timeline |-> <<"synthesis">>]

SynthesisUpdate(result) ==
    [synthesis_result |-> result, agent_timeline |-> <<"synthesis">>]

CriticUpdateAlwaysLogs(confidence, refine, count, raised) ==
    [verification |-> confidence, needs_refinement |-> refine,
     iteration_count |-> count, agent_timeline |-> <<"critic">>]

CriticUpdate(confidence, refine, count, raised) ==
    [verification |-> confidence, needs_refinement |-> refine,
     iteration_count |-> count,
     agent_timeline |-> IF raised THEN <<>> ELSE <<"critic">>]

\* The value of a state key after a node returned update.
Applied(update, key, old) ==
    IF key \in DOMAIN update THEN Reduce(key, old, update[key]) ELSE old

\* The engine merges the dict node n returned into the state.
ApplyUpdate(n, update) ==
    /\ use_web' = Applied(update, "use_web", use_web)
    /\ execution_plan' = Applied(update, "execution_plan", execution_plan)
    /\ internal_sources' = Applied(update, "internal_sources", internal_sources)
    /\ web_sources' = Applied(update, "web_sources", web_sources)
    /\ generated_image_url' =
            Applied(update, "generated_image_url", generated_image_url)
    /\ synthesis_result' = Applied(update, "synthesis_result", synthesis_result)
    /\ verification' = Applied(update, "verification", verification)
    /\ agent_timeline' = Applied(update, "agent_timeline", agent_timeline)
    /\ iteration_count' = Applied(update, "iteration_count", iteration_count)
    /\ needs_refinement' = Applied(update, "needs_refinement", needs_refinement)
    /\ max_iterations' = Applied(update, "max_iterations", max_iterations)
    /\ write_log' = Append(write_log, [node |-> n, keys |-> DOMAIN update])
    /\ fan_out_updates' =
            IF n \in FanOutNodes THEN [fan_out_updates EXCEPT ![n] = <<update>>]
            ELSE fan_out_updates

GraphInit ==
    /\ node = [n \in Nodes |-> IF n = "planning" THEN "ready" ELSE "idle"]
    /\ use_web \in BOOLEAN
    /\ execution_plan = NoPlan
    /\ internal_sources = <<>>
    /\ web_sources = <<>>
    /\ generated_image_url = None
    /\ synthesis_result = None
    /\ verification = None
    /\ agent_timeline = <<>>
    /\ iteration_count = 0
    /\ needs_refinement = FALSE
    /\ max_iterations \in 0..MaxIterationsBound
    /\ graph_done = FALSE
    /\ critic_runs = 0
    /\ synthesis_runs = 0
    /\ image_gen_url = None
    /\ image_gen_result = None
    /\ answer_chunks = <<>>
    /\ synthesis_answer = <<>>
    /\ node_starts = [n \in Nodes |-> 0]
    /\ write_log = <<>>
    /\ fan_out_updates = [n \in FanOutNodes |-> <<>>]

\* The engine starts a runnable node (on_node_start).
NodeStart(n) ==
    /\ ~graph_done
    /\ node[n] = "ready"
    /\ node' = [node EXCEPT ![n] = "running"]
    /\ node_starts' = [node_starts EXCEPT ![n] = @ + 1]
    /\ UNCHANGED <<use_web, execution_plan, internal_sources, web_sources,
                   generated_image_url, synthesis_result, verification,
                   agent_timeline, iteration_count, needs_refinement,
                   max_iterations, graph_done, critic_runs, synthesis_runs,
                   image_gen_url, image_gen_result, answer_chunks, synthesis_answer, write_log,
                   fan_out_updates>>
    /\ UNCHANGED nongraph

planning_node ==
    /\ node["planning"] = "running"
    /\ \E plan \in PlannerPlans : ApplyUpdate("planning", PlanningUpdate(plan))
    /\ node' = [n \in Nodes |->
                  IF n = "planning" THEN "done"
                  ELSE IF n \in FanOutNodes THEN "ready" ELSE node[n]]
    /\ UNCHANGED <<graph_done, critic_runs, synthesis_runs, image_gen_url, image_gen_result,
                   answer_chunks, synthesis_answer, node_starts>>
    /\ UNCHANGED nongraph

retrieval_node ==
    /\ node["retrieval"] = "running"
    /\ \E res \in RetrievalResults :
        ApplyUpdate("retrieval", RetrievalUpdate(res))
    /\ node' = FanIn([node EXCEPT !["retrieval"] = "done"])
    /\ UNCHANGED <<graph_done, critic_runs, synthesis_runs, image_gen_url, image_gen_result,
                   answer_chunks, synthesis_answer, node_starts>>
    /\ UNCHANGED nongraph

web_search_node ==
    /\ node["web_search"] = "running"
    /\ IF ~WebSearchRuns(use_web, execution_plan)
       THEN ApplyUpdate("web_search", WebSearchSkipped)
       ELSE \E res \in WebResults :
                ApplyUpdate("web_search", WebSearchUpdate(res))
    /\ node' = FanIn([node EXCEPT !["web_search"] = "done"])
    /\ UNCHANGED <<graph_done, critic_runs, synthesis_runs, image_gen_url, image_gen_result,
                   answer_chunks, synthesis_answer, node_starts>>
    /\ UNCHANGED nongraph

image_gen_node ==
    /\ node["image_gen"] = "running"
    /\ IF "image_gen" \notin execution_plan
       THEN /\ ApplyUpdate("image_gen", ImageGenSkipped)
            /\ UNCHANGED <<image_gen_url, image_gen_result>>
       ELSE \E o \in ImageOutcomes :
                LET url == IF o = "url" THEN "url" ELSE None
                IN  /\ ApplyUpdate("image_gen", ImageGenUpdate(url))
                    /\ image_gen_url' = url
                    /\ image_gen_result' = ImageGenEntryResult(o)
    /\ node' = FanIn([node EXCEPT !["image_gen"] = "done"])
    /\ UNCHANGED <<graph_done, critic_runs, synthesis_runs,
                   answer_chunks, synthesis_answer, node_starts>>
    /\ UNCHANGED nongraph

\* synthesis_node: run_stream gets state.get("generated_image_url"); its
\* answer chunks are dispatched and its result becomes synthesis_result.
\* The LLM stream delivers MaxChunks text chunks, then ends or raises.
synthesis_node ==
    /\ node["synthesis"] = "running"
    /\ ApplyUpdate("synthesis",
                   SynthesisUpdate(IF verification = None THEN "answer"
                                   ELSE "refined"))
    /\ \E raised \in BOOLEAN :
        /\ answer_chunks' =
                RunStreamChunks(MaxChunks, raised, generated_image_url)
        /\ synthesis_answer' =
                RunStreamAnswer(MaxChunks, raised, generated_image_url)
    /\ synthesis_runs' = synthesis_runs + 1
    /\ node' = [node EXCEPT !["synthesis"] = "done", !["critic"] = "ready"]
    /\ UNCHANGED <<graph_done, critic_runs, image_gen_url, image_gen_result, node_starts>>
    /\ UNCHANGED nongraph

critic_node ==
    /\ node["critic"] = "running"
    /\ \E raised \in BOOLEAN, status \in CriticStatuses :
        LET confidence == IF raised THEN CriticFailedStatus ELSE status
            refine == NeedsRefinement(iteration_count, max_iterations, confidence)
        IN  /\ ApplyUpdate("critic",
                           CriticUpdate(confidence, refine,
                                        NextIterationCount(iteration_count),
                                        raised))
            /\ IF should_refine(needs_refinement') = "synthesis"
               THEN /\ node' = [node EXCEPT !["critic"] = "done",
                                            !["synthesis"] = "ready"]
                    /\ graph_done' = FALSE
               ELSE /\ node' = [node EXCEPT !["critic"] = "done"]
                    /\ graph_done' = TRUE
    /\ critic_runs' = critic_runs + 1
    /\ UNCHANGED <<synthesis_runs, image_gen_url, image_gen_result, answer_chunks,
                   synthesis_answer, node_starts>>
    /\ UNCHANGED nongraph

GraphNext ==
    \/ \E n \in Nodes : NodeStart(n)
    \/ planning_node
    \/ retrieval_node
    \/ web_search_node
    \/ image_gen_node
    \/ synthesis_node
    \/ critic_node

----------------------------------------------------------------------------
(* Hybrid search: services/search.py, HybridSearchService.search_with_rrf *)

Users == {"u1", "u2"}

Docs == {"d1", "d2", "d3"}

PointIds == {"p1", "p2", "p3", "p4"}

\* The collection: each point's payload (user_id, document_id).
Points ==
    [p \in PointIds |->
        CASE p = "p1" -> [user_id |-> "u1", document_id |-> "d1"]
          [] p = "p2" -> [user_id |-> "u1", document_id |-> "d2"]
          [] p = "p3" -> [user_id |-> "u1", document_id |-> "d2"]
          [] OTHER    -> [user_id |-> "u2", document_id |-> "d3"]]

RRF_K == 60

AnyValue == "<any>"

Range(seq) == {seq[i] : i \in 1..Len(seq)}

Min(a, b) == IF a < b THEN a ELSE b

\* must_conditions: user_id always, document_id only for a non-empty list.
BuildFilterDocsOnly(user_id, document_ids) ==
    IF document_ids.given /\ document_ids.ids # {}
    THEN [user_id |-> AnyValue, document_id |-> document_ids.ids]
    ELSE [user_id |-> user_id, document_id |-> {AnyValue}]

BuildFilter(user_id, document_ids) ==
    [user_id |-> user_id,
     document_id |-> IF document_ids.given /\ document_ids.ids # {}
                     THEN document_ids.ids
                     ELSE {AnyValue}]

\* A point passes Filter(must=...) when every condition matches its payload.
Matches(payload, f) ==
    /\ f.user_id = AnyValue \/ payload.user_id = f.user_id
    /\ f.document_id = {AnyValue} \/ payload.document_id \in f.document_id

\* query_points(query_filter, limit): some ranking of at most limit
\* matching points, each at most once.
RankLists(f, limit) ==
    LET M == {p \in PointIds : Matches(Points[p], f)}
    IN  UNION {{l \in [1..k -> M] : \A i, j \in 1..k : i # j => l[i] # l[j]} :
                 k \in 0..Min(limit, Cardinality(M))}

CandidateLimit(top_k) == top_k * 3

RECURSIVE ScaleUpTo(_)
ScaleUpTo(n) == IF n = 0 THEN 1 ELSE (RRF_K + n) * ScaleUpTo(n - 1)

\* Scores are kept as integers: 1 / (RRF_K + rank) times RRFScale.
RRFScale == ScaleUpTo(Cardinality(PointIds))

RankIn(list, p) == CHOOSE i \in 1..Len(list) : list[i] = p

Contribution(list, p) ==
    IF p \in Range(list) THEN RRFScale \div (RRF_K + RankIn(list, p)) ELSE 0

\* A fusion in which the sparse rank replaces the dense one.
rrf_scores_overwritten(dense, sparse) ==
    [p \in Range(dense) \cup Range(sparse) |->
        IF p \in Range(sparse) THEN Contribution(sparse, p)
        ELSE Contribution(dense, p)]

rrf_scores(dense, sparse) ==
    [p \in Range(dense) \cup Range(sparse) |->
        Contribution(dense, p) + Contribution(sparse, p)]

\* rrf_scores.keys(): insertion order, dense points first.
ScoreKeys(dense, sparse) ==
    dense \o SelectSeq(sparse, LAMBDA p : p \notin Range(dense))

InsertDesc(sorted, x, score) ==
    LET k == Cardinality({i \in 1..Len(sorted) : score[sorted[i]] >= score[x]})
    IN  SubSeq(sorted, 1, k) \o <<x>> \o SubSeq(sorted, k + 1, Len(sorted))

\* sorted(keys, key=score, reverse=True): stable among equal scores.
RECURSIVE SortedIds(_, _)
SortedIds(keys, score) ==
    IF keys = <<>> THEN <<>>
    ELSE InsertDesc(SortedIds(SubSeq(keys, 1, Len(keys) - 1), score),
                    keys[Len(keys)], score)

SearchResults(dense, sparse, top_k) ==
    LET score  == rrf_scores(dense, sparse)
        sorted == SortedIds(ScoreKeys(dense, sparse), score)
        cut    == SubSeq(sorted, 1, Min(top_k, Len(sorted)))
    IN  [i \in 1..Len(cut) |->
            [chunk_id |-> cut[i],
             document_id |-> Points[cut[i]].document_id,
             score |-> score[cut[i]]]]

NoFilter == [user_id |-> AnyValue, document_id |-> {AnyValue}]

DocumentIdInputs ==
    {[given |-> FALSE, ids |-> {}]} \cup
    {[given |-> TRUE, ids |-> d] : d \in {{}, {"d1"}, {"d3"}, {"d2", "d3"}}}

SearchStart ==
    /\ s_pc = "filter"
    /\ s_filter = NoFilter
    /\ s_queries = <<>>
    /\ dense_points = <<>>
    /\ sparse_points = <<>>
    /\ search_results = <<>>

SearchInit ==
    /\ s_user_id \in Users
    /\ s_document_ids \in DocumentIdInputs
    /\ s_top_k \in 1..MaxTopK
    /\ SearchStart

SearchIdle ==
    /\ s_user_id = "u1"
    /\ s_document_ids = [given |-> FALSE, ids |-> {}]
    /\ s_top_k = 1
    /\ SearchStart

SearchBuildFilter ==
    /\ s_pc = "filter"
    /\ s_filter' = BuildFilter(s_user_id, s_document_ids)
    /\ s_pc' = "dense"
    /\ UNCHANGED <<s_user_id, s_document_ids, s_top_k, s_queries,
                   dense_points, sparse_points, search_results>>
    /\ UNCHANGED nonsearch

SearchDense ==
    /\ s_pc = "dense"
    /\ \E l \in RankLists(s_filter, CandidateLimit(s_top_k)) : dense_points' = l
    /\ s_queries' = Append(s_queries, [using |-> "dense", query_filter |-> s_filter])
    /\ s_pc' = "sparse"
    /\ UNCHANGED <<s_user_id, s_document_ids, s_top_k, s_filter,
                   sparse_points, search_results>>
    /\ UNCHANGED nonsearch

SearchSparse ==
    /\ s_pc = "sparse"
    /\ \E l \in RankLists(s_filter, CandidateLimit(s_top_k)) : sparse_points' = l
    /\ s_queries' = Append(s_queries, [using |-> "sparse", query_filter |-> s_filter])
    /\ s_pc' = "fuse"
    /\ UNCHANGED <<s_user_id, s_document_ids, s_top_k, s_filter,
                   dense_points, search_results>>
    /\ UNCHANGED nonsearch

SearchFuse ==
    /\ s_pc = "fuse"
    /\ search_results' = SearchResults(dense_points, sparse_points, s_top_k)
    /\ s_pc' = "done"
    /\ UNCHANGED <<s_user_id, s_document_ids, s_top_k, s_filter, s_queries,
                   dense_points, sparse_points>>
    /\ UNCHANGED nonsearch

SearchNext ==
    \/ SearchBuildFilter
    \/ SearchDense
    \/ SearchSparse
    \/ SearchFuse

----------------------------------------------------------------------------
(* Source normalization: agents/orchestrator.py, _normalize_sources *)

\* dict.get(key, default) on a dict given as a function of its keys.
Get(d, key, default) == IF key \in DOMAIN d THEN d[key] ELSE default

\* Dicts over the keys in keys, each key absent or bound to one value of
\* values[key].
Dicts(keys, values) ==
    UNION {{d \in [present -> UNION {values[k] : k \in present}] :
                \A k \in present : d[k] \in values[k]} :
           present \in SUBSET keys}

\* Lists of at most n elements of s.
ListsUpTo(s, n) == UNION {[1..len -> s] : len \in 0..n}

InternalSourceDicts ==
    {d \in Dicts({"chunk_id", "document_id", "content", "score"},
                 [chunk_id |-> {"chunk1"}, document_id |-> {"d1"},
                  content |-> {"text"}, score |-> {"9", None}]) :
        {"chunk_id", "document_id"} \subseteq DOMAIN d}

WebSourceDicts ==
    {d \in Dicts({"url", "title", "content", "relevance_score", "score"},
                 [url |-> {"url1"}, title |-> {"title1"},
                  content |-> {"text"}, relevance_score |-> {"8", None},
                  score |-> {"9"}]) :
        {"url", "title"} \subseteq DOMAIN d}

\* The score of a normalized web entry, line 469.
WebScoreRelevanceOnly(source) == Get(source, "relevance_score", "0")

WebScore(source) ==
    Get(source, "relevance_score", Get(source, "score", "0"))

NormalizedInternal(source) ==
    [type |-> "internal",
     chunk_id |-> Get(source, "chunk_id", None),
     document_id |-> Get(source, "document_id", None),
     content |-> Get(source, "content", ""),
     score |-> Get(source, "score", "0")]

NormalizedWeb(source) ==
    [type |-> "web",
     url |-> Get(source, "url", None),
     title |-> Get(source, "title", None),
     content |-> Get(source, "content", ""),
     score |-> WebScore(source)]

_normalize_sources(internal, web) ==
    [i \in 1..Len(internal) |-> NormalizedInternal(internal[i])]
    \o [i \in 1..Len(web) |-> NormalizedWeb(web[i])]

\* The entries of a normalized list that carry one type.
OfType(sources, type) == SelectSeq(sources, LAMBDA source : source.type = type)

NormalizeInit ==
    /\ n_pc = "start"
    /\ n_internal \in ListsUpTo(InternalSourceDicts, MaxSourceList)
    /\ n_web \in ListsUpTo(WebSourceDicts, MaxSourceList)
    /\ n_once = <<>>
    /\ n_twice = <<>>

NormalizeIdle ==
    /\ n_pc = "done"
    /\ n_internal = <<>>
    /\ n_web = <<>>
    /\ n_once = <<>>
    /\ n_twice = <<>>

N_Normalize ==
    /\ n_pc = "start"
    /\ n_once' = _normalize_sources(n_internal, n_web)
    /\ n_pc' = "once"
    /\ UNCHANGED <<n_internal, n_web, n_twice>>
    /\ UNCHANGED nonnormalize

N_NormalizeAgain ==
    /\ n_pc = "once"
    /\ n_twice' = _normalize_sources(OfType(n_once, "internal"),
                                     OfType(n_once, "web"))
    /\ n_pc' = "done"
    /\ UNCHANGED <<n_internal, n_web, n_once>>
    /\ UNCHANGED nonnormalize

NormalizeNext ==
    \/ N_Normalize
    \/ N_NormalizeAgain

----------------------------------------------------------------------------
(* Orchestrator entry points and the chat SSE streams:                     *)
(* agents/orchestrator.py, api/chats.py                                    *)

Entries == {"research", "research_stream", "research_with_context",
            "research_stream_with_context", "chat_stream", "image_stream"}

\* chat_stream is send_chat_query_stream.event_generator driving
\* research_stream_with_context; image_stream is the same generator with
\* generate_image set, driving _image_generation_stream.
Streaming(e) == e \in {"research_stream", "research_stream_with_context", "chat_stream"}

WithContext(e) == e \in {"research_with_context", "research_stream_with_context", "chat_stream"}

CallerUser == "u1"

CallerChat == "c1"

\* The documents table: each document's owner and chat.
DocumentRows ==
    [d \in Docs |->
        CASE d = "d1" -> [user_id |-> "u1", chat_id |-> "c1"]
          [] d = "d2" -> [user_id |-> "u1", chat_id |-> "c2"]
          [] OTHER    -> [user_id |-> "u2", chat_id |-> "c3"]]

\* An event; from names the pipeline stage whose work the event carries.
Event(type, n, status, from) ==
    [type |-> type, node |-> n, status |-> status, from |-> from]

NodeStatus(n, status) == Event("node_complete", n, status, "orchestrator")

Chunk(type, n) == Event(type, "-", "-", n)

\* A sources event with the list it carries.
SourcesEvent(n, sources) ==
    [type |-> "sources", node |-> "-", status |-> "-", from |-> n,
     sources |-> sources]

TitleEvent == Event("title_updated", "-", "-", "orchestrator")

CompleteEventEmptySources(confidence, sources) ==
    [type |-> "complete", node |-> "-", status |-> "-", from |-> "orchestrator",
     confidence |-> confidence, sources |-> <<>>]

\* The complete event with its confidence and sources fields.
CompleteEvent(confidence, sources) ==
    [type |-> "complete", node |-> "-", status |-> "-", from |-> "orchestrator",
     confidence |-> confidence, sources |-> sources]

\* confidence of the session: the verification_status, "unknown" without one.
ConfidenceUnknown(v) == "unknown"

Confidence(v) == IF v = None THEN "unknown" ELSE v

ErrorEvent == Event("error", "-", "-", "orchestrator")

\* event_generator: the SSE events written for one orchestrator event other
\* than complete.
ChatTranslate(e) ==
    CASE e.type = "message_id" -> <<e>>
      [] e.type = "node_complete" -> <<[e EXCEPT !.type = "agent_status"]>>
      [] e.type \in {"answer_chunk", "thought_chunk", "sources",
                     "title_updated", "error"} -> <<e>>
      [] OTHER -> <<>>

\* event_generator on the orchestrator's complete event: the message row is
\* inserted first; a failing insert reaches the generator's except clause.
ChatOnCompleteYieldFirst(e, insert_ok) ==
    IF insert_ok THEN <<CompleteEvent(e.confidence, e.sources)>>
    ELSE <<CompleteEvent(e.confidence, e.sources), ErrorEvent>>

ChatOnComplete(e, insert_ok) ==
    IF insert_ok THEN <<CompleteEvent(e.confidence, e.sources)>>
    ELSE <<ErrorEvent>>

\* What the caller sees of one event the orchestrator yields.
Out(entry, e) == IF entry = "chat_stream" THEN ChatTranslate(e) ELSE <<e>>

\* The document_ids the entry points hand to retrieval: the caller's list.
RetrievalDocumentIds(user_id, chat_id, requested) == requested

\* The except clause's write to research_sessions.
SessionAfterFailure(row, write_ok) ==
    IF write_ok /\ row.status # "none"
    THEN [status |-> "failed", result |-> "error"]
    ELSE row

SessionCompleted == [status |-> "completed", result |-> "answer"]

\* should_web_search in the streaming entry points.
ShouldWebSearchPlanOnly(request_use_web, plan_web) == plan_web

ShouldWebSearch(request_use_web, plan_web) == request_use_web /\ plan_web

\* Results of RetrievalAgent.run and of WebSearchAgent.run in a session.
RetrievedSources ==
    {<<>>, <<[chunk_id |-> "chunk1", document_id |-> "d1",
              content |-> "text", score |-> "9"]>>}

WebSearchedSources ==
    {<<>>, <<[url |-> "url1", title |-> "title1", content |-> "text",
              relevance_score |-> "8"]>>}

NotReached == [reached |-> FALSE, given |-> FALSE, ids |-> {}]

Reached(document_ids) ==
    [reached |-> TRUE, given |-> document_ids.given, ids |-> document_ids.ids]

\* The answer of a session: accumulated_answer of the chat generator (the
\* answer_chunk contents streamed so far), full_answer of run_stream, and
\* the answers stored with the messages row and with the completed
\* research_sessions row (<<>> while nothing is stored).
NoAnswer ==
    [accumulated_answer |-> <<>>, full_answer |-> <<>>,
     message |-> <<>>, session |-> <<>>]

\* An answer_chunk with this content is yielded and forwarded.
Streamed(answer, piece) ==
    [answer EXCEPT !.accumulated_answer = Append(@, piece),
                   !.full_answer = Append(@, piece)]

\* run_stream when the LLM stream is over: if it raised, full_answer is
\* replaced by the apology, which is also yielded as an answer_chunk.
AfterStream(answer, raised) ==
    IF raised
    THEN [answer EXCEPT !.accumulated_answer = Append(@, FallbackPiece),
                        !.full_answer = <<FallbackPiece>>]
    ELSE answer

\* The completed update stores synthesis_result["answer"].
SessionResult(answer, update_ok) ==
    IF update_ok THEN [answer EXCEPT !.session = <<answer.full_answer>>]
    ELSE answer

\* final_answer = event.get("answer", accumulated_answer), stored with the
\* messages row.
MessageStored(answer, e, insert_ok) ==
    IF ~insert_ok THEN answer
    ELSE [answer EXCEPT !.message =
            <<IF "answer" \in DOMAIN e THEN e.answer
              ELSE answer.accumulated_answer>>]

StreamInit ==
    /\ o_entry \in Entries
    /\ o_request \in [use_web : BOOLEAN, document_ids : DocumentIdInputs]
    /\ o_pc = IF o_entry = "image_stream" THEN "img_start"
              ELSE IF WithContext(o_entry) THEN "memory" ELSE "insert"
    /\ events = <<>>
    /\ session = [status |-> "none", result |-> "none"]
    /\ session_writes = <<>>
    /\ o_answer = NoAnswer
    /\ o_outcome = "none"
    /\ retrieval_docs = NotReached
    /\ o_plan_web = FALSE
    /\ o_timeline = <<>>
    /\ o_verification = None
    /\ o_chunks = 0
    /\ memories = {}
    /\ message_row = FALSE
    /\ chat_title_set = FALSE
    /\ o_exceptions = {}
    /\ o_fail_write = "none"
    /\ o_internal_sources = <<>>
    /\ o_web_sources = <<>>
    /\ all_sources = <<>>

StreamIdle ==
    /\ StreamInit
    /\ o_entry = "research"
    /\ o_request = [use_web |-> FALSE, document_ids |-> [given |-> FALSE, ids |-> {}]]
    /\ o_internal_sources = <<>>
    /\ o_web_sources = <<>>
    /\ all_sources = <<>>

\* An exception leaves the entry point before its try block is entered: the
\* chat generator's own except clause turns it into an SSE error event.
Propagate ==
    /\ events' = IF o_entry = "chat_stream" THEN Append(events, ErrorEvent) ELSE events
    /\ o_outcome' = IF o_entry = "chat_stream" THEN "chat_error" ELSE "propagated"
    /\ o_pc' = "done"
    /\ o_exceptions' = IF session.status # "none"
                       THEN o_exceptions \cup {"insert"} ELSE o_exceptions

\* The entry point's except clause, entered with the row as it stands and
\* after the exceptions in swallowed were caught and logged on the way.
FailAfter(row, swallowed) ==
    /\ \E write_ok \in BOOLEAN :
        /\ session' = SessionAfterFailure(row, write_ok)
        /\ session_writes' =
              session_writes
              \o (IF row.status # session.status THEN <<row.status>> ELSE <<>>)
              \o (IF write_ok /\ row.status # "none" THEN <<"failed">>
                  ELSE <<>>)
        /\ o_fail_write' = IF write_ok THEN "ok" ELSE "failed"
        /\ o_exceptions' =
              IF row.status = "none" THEN o_exceptions
              ELSE o_exceptions \cup swallowed \cup {"fatal"}
                                \cup (IF write_ok THEN {} ELSE {"failed_update"})
    /\ events' = IF Streaming(o_entry) THEN events \o Out(o_entry, ErrorEvent) ELSE events
    /\ o_outcome' = IF Streaming(o_entry) THEN "error" ELSE "raised"
    /\ o_pc' = "done"

Fail(row) == FailAfter(row, {})

\* build_memory_context (and, for the chat stream, Orchestrator(user_id)).
O_BuildMemory ==
    /\ o_pc = "memory"
    /\ \/ /\ o_pc' = "insert"
          /\ UNCHANGED <<events, o_outcome, o_exceptions>>
       \/ Propagate
    /\ UNCHANGED <<o_entry, o_request, session, session_writes, retrieval_docs, o_plan_web,
                   o_timeline, o_verification, o_chunks, memories,
                   message_row, chat_title_set, o_fail_write>>
    /\ UNCHANGED <<o_internal_sources, o_web_sources, all_sources>>
    /\ UNCHANGED o_answer
    /\ UNCHANGED nonstream

\* research_sessions.insert with status running.
O_InsertSession ==
    /\ o_pc = "insert"
    /\ \/ /\ session' = [status |-> "running", result |-> "none"]
          /\ session_writes' = Append(session_writes, "running")
          /\ o_pc' = IF Streaming(o_entry) THEN "plan_start" ELSE "graph"
          /\ UNCHANGED <<events, o_outcome, o_exceptions, o_fail_write>>
       \/ /\ o_entry # "research_with_context"
          /\ Propagate
          /\ UNCHANGED <<session, session_writes, o_fail_write>>
       \/ /\ o_entry = "research_with_context"
          /\ Fail(session)
    /\ UNCHANGED <<o_entry, o_request, retrieval_docs, o_plan_web,
                   o_timeline, o_verification, o_chunks, memories,
                   message_row, chat_title_set>>
    /\ UNCHANGED <<o_internal_sources, o_web_sources, all_sources>>
    /\ UNCHANGED o_answer
    /\ UNCHANGED nonstream

\* A streaming entry point yields status = running for a stage.
O_StageStart(pc, n, next) ==
    /\ Streaming(o_entry)
    /\ o_pc = pc
    /\ events' = events \o Out(o_entry, NodeStatus(n, "running"))
    /\ o_pc' = next
    /\ o_chunks' = 0
    /\ UNCHANGED <<o_entry, o_request, session, session_writes, o_outcome, retrieval_docs,
                   o_plan_web, o_timeline, o_verification, memories,
                   message_row, chat_title_set, o_exceptions, o_fail_write>>
    /\ UNCHANGED <<o_internal_sources, o_web_sources, all_sources>>
    /\ UNCHANGED o_answer
    /\ UNCHANGED nonstream

O_PlanStart == O_StageStart("plan_start", "planning", "planning")

O_RetrievalStart == O_StageStart("retrieval_start", "retrieval", "retrieval")

O_WebStart == O_StageStart("web_start", "web_search", "web_search")

O_SynthesisStart == O_StageStart("synthesis_start", "synthesis", "synthesis")

O_CriticStart == O_StageStart("critic_start", "critic", "critic")

O_PlanEnd ==
    /\ o_pc = "planning"
    /\ \/ /\ \E web \in BOOLEAN : o_plan_web' = web
          /\ o_timeline' = Append(o_timeline, "planner")
          /\ events' = events \o Out(o_entry, NodeStatus("planning", "complete"))
          /\ o_pc' = "retrieval_start"
          /\ UNCHANGED <<session, session_writes, o_outcome, o_exceptions, o_fail_write>>
       \/ /\ Fail(session)
          /\ UNCHANGED <<o_plan_web, o_timeline>>
    /\ UNCHANGED <<o_entry, o_request, retrieval_docs, o_verification,
                   o_chunks, memories, message_row, chat_title_set>>
    /\ UNCHANGED <<o_internal_sources, o_web_sources, all_sources>>
    /\ UNCHANGED o_answer
    /\ UNCHANGED nonstream

O_RetrievalEnd ==
    /\ o_pc = "retrieval"
    /\ retrieval_docs' =
          Reached(RetrievalDocumentIds(CallerUser, CallerChat, o_request.document_ids))
    /\ \/ /\ o_timeline' = Append(o_timeline, "retrieval")
          /\ \E res \in RetrievedSources :
                /\ o_internal_sources' = res
                /\ events' = events
                        \o Out(o_entry, NodeStatus("retrieval", "complete"))
                        \o Out(o_entry, SourcesEvent("retrieval", res))
          /\ o_pc' = IF ShouldWebSearch(o_request.use_web, o_plan_web)
                     THEN "web_start" ELSE "synthesis_start"
          /\ UNCHANGED <<session, session_writes, o_outcome, o_exceptions, o_fail_write>>
       \/ /\ Fail(session)
          /\ UNCHANGED <<o_timeline, o_internal_sources>>
    /\ UNCHANGED <<o_entry, o_request, o_plan_web, o_verification,
                   o_chunks, memories, message_row, chat_title_set>>
    /\ UNCHANGED <<o_web_sources, all_sources>>
    /\ UNCHANGED o_answer
    /\ UNCHANGED nonstream

O_WebEnd ==
    /\ o_pc = "web_search"
    /\ \/ /\ o_timeline' = Append(o_timeline, "web_search")
          /\ \E res \in WebSearchedSources :
                /\ o_web_sources' = res
                /\ events' = events
                        \o Out(o_entry, NodeStatus("web_search", "complete"))
                        \o Out(o_entry, SourcesEvent("web_search", res))
          /\ o_pc' = "synthesis_start"
          /\ UNCHANGED <<session, session_writes, o_outcome, o_exceptions, o_fail_write>>
       \/ /\ Fail(session)
          /\ UNCHANGED <<o_timeline, o_web_sources>>
    /\ UNCHANGED <<o_entry, o_request, retrieval_docs, o_plan_web,
                   o_verification, o_chunks, memories, message_row,
                   chat_title_set>>
    /\ UNCHANGED <<o_internal_sources, all_sources>>
    /\ UNCHANGED o_answer
    /\ UNCHANGED nonstream

\* all_sources as the streaming entry points compute it after synthesis.
AllSources(internal, web) == _normalize_sources(internal, web)

\* One item of SynthesisAgent.run_stream forwarded to the caller.
O_SynthesisChunk ==
    /\ o_pc = "synthesis"
    /\ o_chunks < MaxChunks
    /\ \E t \in {"thought_chunk", "answer_chunk"} :
          /\ events' = events \o Out(o_entry, Chunk(t, "synthesis"))
          /\ o_answer' = IF t = "answer_chunk"
                         THEN Streamed(o_answer, TextPiece) ELSE o_answer
    /\ o_chunks' = o_chunks + 1
    /\ UNCHANGED <<o_entry, o_pc, o_request, session, session_writes, o_outcome,
                   retrieval_docs, o_plan_web, o_timeline, o_verification,
                   memories, message_row, chat_title_set, o_exceptions,
                   o_fail_write>>
    /\ UNCHANGED <<o_internal_sources, o_web_sources, all_sources>>
    /\ UNCHANGED nonstream

\* run_stream ends with its complete item; the sources are normalized and
\* sent right after the stage's status event.
O_SynthesisEnd ==
    /\ o_pc = "synthesis"
    /\ \/ /\ o_timeline' = Append(o_timeline, "synthesis")
          /\ all_sources' = AllSources(o_internal_sources, o_web_sources)
          /\ \E raised \in BOOLEAN :
                /\ o_answer' = AfterStream(o_answer, raised)
                /\ events' = events
                      \o (IF raised
                          THEN Out(o_entry, Chunk("answer_chunk", "synthesis"))
                          ELSE <<>>)
                      \o Out(o_entry, NodeStatus("synthesis", "complete"))
                      \o Out(o_entry, SourcesEvent("orchestrator", all_sources'))
          /\ o_pc' = "critic_start"
          /\ UNCHANGED <<session, session_writes, o_outcome, o_exceptions, o_fail_write>>
       \/ /\ Fail(session)
          /\ UNCHANGED <<o_timeline, all_sources, o_answer>>
    /\ UNCHANGED <<o_entry, o_request, retrieval_docs, o_plan_web,
                   o_verification, o_chunks, memories, message_row,
                   chat_title_set>>
    /\ UNCHANGED <<o_internal_sources, o_web_sources>>
    /\ UNCHANGED nonstream

CriticFault(o) == IF o = "timeout" THEN "critic_timeout" ELSE "critic_error"

\* The critic under asyncio.wait_for: a result, a timeout or an error, each
\* answered with a status event; none of them reaches the except clause.
O_CriticEnd ==
    /\ o_pc = "critic"
    /\ \E o \in {"complete", "timeout", "error"}, st \in CriticStatuses :
        /\ o_verification' = IF o = "complete" THEN st ELSE o
        /\ o_timeline' = IF o = "complete" THEN Append(o_timeline, "critic")
                         ELSE o_timeline
        /\ events' = events \o Out(o_entry, NodeStatus("critic", o))
        /\ o_exceptions' = IF o = "complete" THEN o_exceptions
                           ELSE o_exceptions \cup {CriticFault(o)}
    /\ o_pc' = "persist"
    /\ UNCHANGED <<o_entry, o_request, session, session_writes, o_outcome, retrieval_docs,
                   o_plan_web, o_chunks, memories, message_row,
                   chat_title_set, o_fail_write>>
    /\ UNCHANGED <<o_internal_sources, o_web_sources, all_sources>>
    /\ UNCHANGED o_answer
    /\ UNCHANGED nonstream

\* _store_agent_memories: one write per timeline entry, each failure swallowed.
StoredMemories(timeline) == SUBSET Range(timeline)

StoreFailures(stored, timeline) ==
    IF stored # Range(timeline) THEN {"memory_store"} ELSE {}

TitleOutcomes == {"ok", "update_fails", "generation_raises"}

\* Post-pipeline work of the streaming entry points, up to the last yield
\* before complete.
O_Persist ==
    /\ o_pc = "persist"
    /\ \/ \* research_stream: the status write is not guarded
          /\ ~WithContext(o_entry)
          /\ \/ /\ session' = SessionCompleted
                /\ session_writes' = Append(session_writes, "completed")
                /\ o_answer' = SessionResult(o_answer, TRUE)
                /\ o_pc' = "complete"
                /\ UNCHANGED <<events, o_outcome, o_exceptions, o_fail_write>>
             \/ /\ Fail(session)
                /\ UNCHANGED o_answer
          /\ UNCHANGED <<memories, chat_title_set>>
       \/ \* research_stream_with_context: memory and status writes are guarded
          /\ WithContext(o_entry)
          /\ \E stored \in StoredMemories(o_timeline), update_ok \in BOOLEAN,
                title \in TitleOutcomes :
              LET row == IF update_ok THEN SessionCompleted ELSE session
                  swallowed ==
                      StoreFailures(stored, o_timeline)
                      \cup (IF update_ok THEN {} ELSE {"completed_update"})
              IN  /\ memories' = stored
                  /\ o_answer' = SessionResult(o_answer, update_ok)
                  /\ IF title = "generation_raises"
                     THEN /\ FailAfter(row, swallowed)
                          /\ UNCHANGED chat_title_set
                     ELSE /\ session' = row
                          /\ session_writes' =
                                IF update_ok
                                THEN Append(session_writes, "completed")
                                ELSE session_writes
                          /\ chat_title_set' = (title = "ok")
                          /\ events' = IF title = "ok"
                                       THEN events \o Out(o_entry, TitleEvent)
                                       ELSE events
                          /\ o_pc' = "complete"
                          /\ o_exceptions' =
                                o_exceptions \cup swallowed
                                \cup (IF title = "ok" THEN {} ELSE {"title_update"})
                          /\ UNCHANGED <<o_outcome, o_fail_write>>
    /\ UNCHANGED <<o_entry, o_request, retrieval_docs, o_plan_web,
                   o_timeline, o_verification, o_chunks, message_row>>
    /\ UNCHANGED <<o_internal_sources, o_web_sources, all_sources>>
    /\ UNCHANGED nonstream

\* The final yield; the chat generator stores the message before it forwards it.
O_Complete ==
    /\ o_pc = "complete"
    /\ \/ /\ o_entry # "chat_stream"
          /\ events' = Append(events, CompleteEvent(Confidence(o_verification),
                                                    all_sources))
          /\ o_outcome' = "completed"
          /\ UNCHANGED <<message_row, o_answer>>
       \/ /\ o_entry = "chat_stream"
          /\ \E insert_ok \in BOOLEAN :
              /\ events' = events \o
                    ChatOnComplete(CompleteEvent(Confidence(o_verification),
                                                 all_sources), insert_ok)
              /\ message_row' = insert_ok
              /\ o_answer' =
                    MessageStored(o_answer,
                                  CompleteEvent(Confidence(o_verification),
                                                all_sources), insert_ok)
              /\ o_outcome' = IF insert_ok THEN "completed" ELSE "chat_error"
    /\ o_pc' = "done"
    /\ UNCHANGED <<o_entry, o_request, session, session_writes, retrieval_docs, o_plan_web,
                   o_timeline, o_verification, o_chunks, memories,
                   chat_title_set, o_exceptions, o_fail_write>>
    /\ UNCHANGED <<o_internal_sources, o_web_sources, all_sources>>
    /\ UNCHANGED nonstream

\* The caller goes away: the generator is closed (GeneratorExit) or its task
\* is cancelled (CancelledError) where it is suspended; neither is an
\* Exception, so no except clause of the entry point runs.
O_Cancel ==
    /\ Streaming(o_entry)
    /\ o_pc # "done"
    /\ o_outcome' = "cancelled"
    /\ o_pc' = "done"
    /\ UNCHANGED <<o_entry, o_request, events, session, session_writes, retrieval_docs,
                   o_plan_web, o_timeline, o_verification, o_chunks, memories,
                   message_row, chat_title_set, o_exceptions, o_fail_write>>
    /\ UNCHANGED <<o_internal_sources, o_web_sources, all_sources>>
    /\ UNCHANGED o_answer
    /\ UNCHANGED nonstream

\* final_state["agent_timeline"] of a run without refinement: one entry per
\* agent that ran; critic_node adds none when CriticAgent.run raised.
GraphTimeline(use_web_flag, plan, critic_raised) ==
    <<"planner", "retrieval">>
    \o (IF WebSearchRuns(use_web_flag, plan) THEN <<"web_search">> ELSE <<>>)
    \o (IF "image_gen" \in plan THEN <<"image_gen">> ELSE <<>>)
    \o <<"synthesis">>
    \o (IF critic_raised THEN <<>> ELSE <<"critic">>)

\* research / research_with_context: graph.ainvoke(initial_state).
O_GraphInvoke ==
    /\ o_pc = "graph"
    /\ \/ /\ retrieval_docs' =
                Reached(RetrievalDocumentIds(CallerUser, CallerChat, o_request.document_ids))
          /\ \E web \in BOOLEAN, st \in CriticStatuses \cup {CriticFailedStatus} :
                /\ o_plan_web' = web
                /\ o_timeline' = GraphTimeline(o_request.use_web,
                                               IF web THEN {"rag", "web", "synthesis"}
                                               ELSE {"rag", "synthesis"},
                                               st = CriticFailedStatus)
                /\ o_verification' = st
          /\ o_pc' = "persist_call"
          /\ UNCHANGED <<session, session_writes, events, o_outcome, o_exceptions, o_fail_write>>
       \/ /\ \E reached \in BOOLEAN :
                retrieval_docs' =
                    IF reached
                    THEN Reached(RetrievalDocumentIds(CallerUser, CallerChat,
                                                      o_request.document_ids))
                    ELSE retrieval_docs
          /\ Fail(session)
          /\ UNCHANGED <<o_plan_web, o_timeline, o_verification>>
    /\ UNCHANGED <<o_entry, o_request, o_chunks, memories,
                   message_row, chat_title_set>>
    /\ UNCHANGED <<o_internal_sources, o_web_sources, all_sources>>
    /\ UNCHANGED o_answer
    /\ UNCHANGED nonstream

\* Post-graph work of research and research_with_context, to the return.
O_PersistCall ==
    /\ o_pc = "persist_call"
    /\ \/ /\ o_entry = "research"
          /\ \/ /\ session' = SessionCompleted
                /\ session_writes' = Append(session_writes, "completed")
                /\ o_outcome' = "completed"
                /\ o_pc' = "done"
                /\ UNCHANGED <<events, o_exceptions, o_fail_write>>
             \/ Fail(session)
          /\ UNCHANGED <<memories, chat_title_set>>
       \/ /\ o_entry = "research_with_context"
          /\ \E stored \in StoredMemories(o_timeline), update_ok \in BOOLEAN,
                title \in TitleOutcomes :
              /\ memories' = stored
              /\ IF ~update_ok
                 THEN /\ FailAfter(session, StoreFailures(stored, o_timeline))
                      /\ UNCHANGED chat_title_set
                 ELSE IF title = "generation_raises"
                 THEN /\ FailAfter(SessionCompleted, StoreFailures(stored, o_timeline))
                      /\ UNCHANGED chat_title_set
                 ELSE /\ session' = SessionCompleted
                      /\ session_writes' = Append(session_writes, "completed")
                      /\ chat_title_set' = (title = "ok")
                      /\ o_outcome' = "completed"
                      /\ o_pc' = "done"
                      /\ o_exceptions' =
                            o_exceptions \cup StoreFailures(stored, o_timeline)
                            \cup (IF title = "ok" THEN {} ELSE {"title_update"})
                      /\ UNCHANGED <<events, o_fail_write>>
    /\ UNCHANGED <<o_entry, o_request, retrieval_docs, o_plan_web,
                   o_timeline, o_verification, o_chunks, message_row>>
    /\ UNCHANGED <<o_internal_sources, o_web_sources, all_sources>>
    /\ UNCHANGED o_answer
    /\ UNCHANGED nonstream

\* message_data["sources"] of a generated image.
GeneratedImageSource ==
    [type |-> "image", url |-> "url", title |-> "Generated Image"]

ImageStatus(status) == Event("agent_status", "image_gen", status, "chat")

\* _image_generation_stream: the first yield.
I_Start ==
    /\ o_pc = "img_start"
    /\ events' = Append(events, ImageStatus("running"))
    /\ o_pc' = "img_generate"
    /\ UNCHANGED <<o_entry, o_request, session, session_writes, o_outcome, retrieval_docs,
                   o_plan_web, o_timeline, o_verification, o_chunks,
                   memories, message_row, chat_title_set, o_exceptions,
                   o_fail_write>>
    /\ UNCHANGED <<o_internal_sources, o_web_sources, all_sources>>
    /\ UNCHANGED o_answer
    /\ UNCHANGED nonstream

ImageStreamFailures == {"generate_raises", "no_images", "save_raises",
                        "no_public_url", "insert_raises"}

\* Generation, storage, the message row, then the three result events.
I_Generate ==
    /\ o_pc = "img_generate"
    /\ \/ /\ message_row' = TRUE
          /\ events' = events \o <<ImageStatus("complete"),
                                   Chunk("answer_chunk", "image_gen"),
                                   CompleteEvent("high", <<GeneratedImageSource>>)>>
          /\ o_pc' = "img_title"
          /\ UNCHANGED o_outcome
       \/ /\ \E f \in ImageStreamFailures : TRUE
          /\ events' = Append(events, ErrorEvent)
          /\ o_outcome' = "chat_error"
          /\ o_pc' = "done"
          /\ UNCHANGED message_row
    /\ UNCHANGED <<o_entry, o_request, session, session_writes, retrieval_docs,
                   o_plan_web, o_timeline, o_verification, o_chunks,
                   memories, chat_title_set, o_exceptions, o_fail_write>>
    /\ UNCHANGED <<o_internal_sources, o_web_sources, all_sources>>
    /\ UNCHANGED o_answer
    /\ UNCHANGED nonstream

ImageTitleOutcomes == {"ok", "empty_title", "update_fails", "generation_raises"}

\* Step 6 of _image_generation_stream: the title, after complete was sent.
I_Title ==
    /\ o_pc = "img_title"
    /\ \E title \in ImageTitleOutcomes :
        /\ chat_title_set' = (title = "ok")
        /\ events' = IF title = "ok" THEN Append(events, TitleEvent) ELSE events
    /\ o_outcome' = "completed"
    /\ o_pc' = "done"
    /\ UNCHANGED <<o_entry, o_request, session, session_writes, retrieval_docs,
                   o_plan_web, o_timeline, o_verification, o_chunks,
                   memories, message_row, o_exceptions, o_fail_write>>
    /\ UNCHANGED <<o_internal_sources, o_web_sources, all_sources>>
    /\ UNCHANGED o_answer
    /\ UNCHANGED nonstream

StreamNext ==
    \/ O_BuildMemory
    \/ O_InsertSession
    \/ O_PlanStart
    \/ O_PlanEnd
    \/ O_RetrievalStart
    \/ O_RetrievalEnd
    \/ O_WebStart
    \/ O_WebEnd
    \/ O_SynthesisStart
    \/ O_SynthesisChunk
    \/ O_SynthesisEnd
    \/ O_CriticStart
    \/ O_CriticEnd
    \/ O_Persist
    \/ O_Complete
    \/ O_Cancel
    \/ O_GraphInvoke
    \/ O_PersistCall
    \/ I_Start
    \/ I_Generate
    \/ I_Title

----------------------------------------------------------------------------
(* Synthesis: agents/synthesis.py, SynthesisAgent.run and run_stream *)

InternalContexts == {l \in UNION {[1..k -> {"chunk1", "chunk2"}] : k \in 0..MaxSources} : TRUE}

ImageContexts == UNION {[1..k -> {"image1"}] : k \in 0..MaxImages}

WebContexts == {l \in UNION {[1..k -> {"url1"}] : k \in 0..MaxSources} : TRUE}

\* Ordinals a piece of LLM text may cite as [Source N]: none or one of them.
Citations == {c \in SUBSET (0..MaxOrdinal) : Cardinality(c) <= 1}

\* The numbering loop: internal sources first, then web sources, from 1.
BuildSourceMap(internal, web) ==
    [n \in 1..(Len(internal) + Len(web)) |->
        IF n <= Len(internal)
        THEN [type |-> "internal", ref |-> internal[n]]
        ELSE [type |-> "web", ref |-> web[n - Len(internal)]]]

\* The image loop: image k is stored under the string key "image_<k>";
\* source_num is not advanced.
BuildImageMap(images) ==
    [k \in 1..Len(images) |-> [type |-> "image", ref |-> images[k]]]

\* The keys of the source_map dict: integers and strings.
IntKey(n) == <<"int", "", n>>

StrKey(prefix, k) == <<"str", prefix, k>>

SourceMapKeys(sources, images) ==
    {IntKey(n) : n \in DOMAIN sources}
    \cup {StrKey("image_", k) : k \in DOMAIN images}

\* re.findall(r"\[Source (\d+)\]", full_answer), as a set.
SourcesUsed(answer) == UNION {answer[i] : i \in 1..Len(answer)}

\* Text without a citation: the fallback and default answers, the image markdown.
Plain == {}

Result(answer, used, map) ==
    <<[answer |-> answer, sources_used |-> used, source_map |-> map]>>

SynthesisInit ==
    /\ y_mode \in {"run", "run_stream"}
    /\ y_pc = "start"
    /\ internal_context \in InternalContexts
    /\ web_context \in WebContexts
    /\ y_image_url \in BOOLEAN
    /\ y_images \in ImageContexts
    /\ source_map = <<>>
    /\ image_map = <<>>
    /\ full_answer = <<>>
    /\ y_chunks = 0
    /\ y_items = <<>>
    /\ y_result = <<>>

SynthesisIdle ==
    /\ SynthesisInit
    /\ y_mode = "run"
    /\ internal_context = <<>>
    /\ web_context = <<>>
    /\ y_image_url = FALSE
    /\ y_images = <<>>

\* Both entry points first number the sources and build the prompt.
Y_BuildContext ==
    /\ y_pc = "start"
    /\ source_map' = BuildSourceMap(internal_context, web_context)
    /\ image_map' = BuildImageMap(y_images)
    /\ y_pc' = IF y_mode = "run" THEN "generate" ELSE "stream"
    /\ UNCHANGED <<y_mode, internal_context, web_context, y_image_url,
                   y_images, full_answer, y_chunks, y_items, y_result>>
    /\ UNCHANGED nonsynthesis

RunResponses == {"answer", "no_answer_field", "json_error"}

\* run: generate_json, parse, fill in the defaults, attach source_map.
Y_Run ==
    /\ y_pc = "generate"
    /\ \E response \in RunResponses, a, b, used \in Citations :
        LET answer == IF response = "answer" THEN <<a, b>> ELSE <<Plain>>
        IN  /\ full_answer' = answer
            /\ y_result' = Result(answer,
                                  IF response = "json_error" THEN {} ELSE used,
                                  source_map)
    /\ y_pc' = "done"
    /\ UNCHANGED <<y_mode, internal_context, web_context, y_image_url,
                   y_images, image_map, source_map, y_chunks, y_items>>
    /\ UNCHANGED nonsynthesis

ChunkKinds == {"thought", "text", "other_type", "not_a_string"}

\* run_stream: one item of the LLM stream.
Y_Chunk ==
    /\ y_pc = "stream"
    /\ y_chunks < MaxChunks
    /\ y_chunks' = y_chunks + 1
    /\ \E kind \in ChunkKinds, c \in Citations :
        CASE kind = "thought" ->
                /\ y_items' = Append(y_items, "thought_chunk")
                /\ UNCHANGED full_answer
          [] kind = "text" ->
                /\ full_answer' = Append(full_answer, c)
                /\ y_items' = Append(y_items, "answer_chunk")
          [] OTHER -> UNCHANGED <<full_answer, y_items>>
    /\ UNCHANGED <<y_mode, y_pc, internal_context, web_context, y_image_url,
                   y_images, image_map, source_map, y_result>>
    /\ UNCHANGED nonsynthesis

\* The stream is exhausted.
Y_StreamEnd ==
    /\ y_pc = "stream"
    /\ y_pc' = "finish"
    /\ UNCHANGED <<y_mode, internal_context, web_context, y_image_url,
                   y_images, image_map, source_map, full_answer, y_chunks,
                   y_items, y_result>>
    /\ UNCHANGED nonsynthesis

\* The stream (or its creation) raises: the answer becomes the fallback text.
Y_StreamRaise ==
    /\ y_pc = "stream"
    /\ full_answer' = <<Plain>>
    /\ y_items' = Append(y_items, "answer_chunk")
    /\ y_pc' = "finish"
    /\ UNCHANGED <<y_mode, internal_context, web_context, y_image_url,
                   y_images, image_map, source_map, y_chunks, y_result>>
    /\ UNCHANGED nonsynthesis

\* After the loop: the generated image, sources_used, the complete item.
Y_Finish ==
    /\ y_pc = "finish"
    /\ LET answer == IF y_image_url THEN Append(full_answer, Plain) ELSE full_answer
       IN  /\ full_answer' = answer
           /\ y_items' = (IF y_image_url THEN Append(y_items, "answer_chunk")
                          ELSE y_items) \o <<"complete">>
           /\ y_result' = Result(answer, SourcesUsed(answer), source_map)
    /\ y_pc' = "done"
    /\ UNCHANGED <<y_mode, internal_context, web_context, y_image_url,
                   y_images, image_map, source_map, y_chunks>>
    /\ UNCHANGED nonsynthesis

SynthesisNext ==
    \/ Y_BuildContext
    \/ Y_Run
    \/ Y_Chunk
    \/ Y_StreamEnd
    \/ Y_StreamRaise
    \/ Y_Finish

----------------------------------------------------------------------------
(* Planner: agents/planner.py, PlannerAgent.run; agents/base.py;           *)
(* agents/agent_models.py                                                   *)

\* The tool field of a step in the LLM's JSON: a tool of ExecutionStep, a
\* name ExecutionStep does not know, or no tool field at all.
UnknownTool == "unknown_tool"

MissingTool == "<no tool>"

StepTools == Tools \cup {UnknownTool, MissingTool}

StepLists == UNION {[1..k -> StepTools] : k \in 0..MaxSteps}

\* What the LLM may answer: text no recovery strategy can parse, JSON that is
\* not an object, or an object with or without a steps list.
PlannerResponses ==
    {[kind |-> "unparseable", has_steps |-> FALSE, steps |-> <<>>],
     [kind |-> "not_object", has_steps |-> FALSE, steps |-> <<>>],
     [kind |-> "object", has_steps |-> FALSE, steps |-> <<>>]}
    \cup {[kind |-> "object", has_steps |-> TRUE, steps |-> l] : l \in StepLists}

DefaultSteps == <<"rag", "synthesis">>

\* s.get("tool", "rag")
StepTool(t) == IF t = MissingTool THEN "rag" ELSE t

PlannerInit ==
    /\ p_pc = "parse"
    /\ p_response \in PlannerResponses
    /\ plan_dict = [has_steps |-> FALSE, steps |-> <<>>]
    /\ p_plan = <<>>
    /\ p_outcome = "none"

PlannerIdle ==
    /\ PlannerInit
    /\ p_response = [kind |-> "unparseable", has_steps |-> FALSE, steps |-> <<>>]

\* _parse_json_response: the parsed value, or JSONDecodeError, which run
\* answers with the default plan_dict.
P_Parse ==
    /\ p_pc = "parse"
    /\ IF p_response.kind = "unparseable"
       THEN /\ plan_dict' = [has_steps |-> TRUE, steps |-> DefaultSteps]
            /\ p_pc' = "convert"
       ELSE /\ plan_dict' = [has_steps |-> p_response.has_steps,
                             steps |-> p_response.steps]
            /\ p_pc' = "validate"
    /\ UNCHANGED <<p_response, p_plan, p_outcome>>
    /\ UNCHANGED nonplanner

\* "Validate required fields": a missing steps key gets the default steps; a
\* value that is not a dict makes the membership test or the assignment
\* raise TypeError, which run does not catch.
P_Validate ==
    /\ p_pc = "validate"
    /\ IF p_response.kind = "not_object"
       THEN /\ p_outcome' = "raised"
            /\ p_pc' = "done"
            /\ UNCHANGED plan_dict
       ELSE /\ plan_dict' = IF plan_dict.has_steps THEN plan_dict
                            ELSE [has_steps |-> TRUE, steps |-> DefaultSteps]
            /\ p_pc' = "convert"
            /\ UNCHANGED p_outcome
    /\ UNCHANGED <<p_response, p_plan>>
    /\ UNCHANGED nonplanner

\* ExecutionPlan(steps=[ExecutionStep(tool=...)]): a tool outside the Literal
\* raises pydantic's ValidationError, which run does not catch.
P_Convert ==
    /\ p_pc = "convert"
    /\ IF \E i \in 1..Len(plan_dict.steps) : StepTool(plan_dict.steps[i]) \notin Tools
       THEN /\ p_outcome' = "raised"
            /\ UNCHANGED p_plan
       ELSE /\ p_plan' = [i \in 1..Len(plan_dict.steps) |-> StepTool(plan_dict.steps[i])]
            /\ p_outcome' = "returned"
    /\ p_pc' = "done"
    /\ UNCHANGED <<p_response, plan_dict>>
    /\ UNCHANGED nonplanner

PlannerNext ==
    \/ P_Parse
    \/ P_Validate
    \/ P_Convert

----------------------------------------------------------------------------
(* Web search: agents/web_search.py, WebSearchAgent.run *)

DefaultMaxWebResults == 5

WebUrls == {"url1", "url2"}

\* A WebSource as far as ranking reads it: the provider's score, whether
\* its date is within 30 days, whether its content earns the length boost.
WebSources ==
    [url : WebUrls, score : {1, 2}, recent : BOOLEAN, long : BOOLEAN]

\* More distinct URLs than the default limit, with the scores in scores.
ManyUrls == <<"w1", "w2", "w3", "w4", "w5", "w6">>

ManySources(scores) ==
    [i \in 1..Len(ManyUrls) |->
        [url |-> ManyUrls[i], score |-> scores[i], recent |-> FALSE,
         long |-> FALSE]]

\* What a lone primary search can return.
GatheredSources ==
    ListsUpTo(WebSources, MaxWebSources)
    \cup {ManySources(scores) : scores \in [1..Len(ManyUrls) -> {1, 2}]}

\* input.constraints.get("max_alternative_queries", 2)
DefaultMaxAlternatives == 2

\* What one of several searches can return.
ShortSources ==
    ListsUpTo([url : WebUrls, score : {1, 2}, recent : {FALSE},
               long : {FALSE}], MaxPerSearch)

SearchSources(tasks) ==
    IF Len(tasks) = 1 THEN GatheredSources ELSE ShortSources

\* search_tasks, lines 105-126: the primary search, then the alternatives
\* that are not empty and differ from the primary query.
SearchTasks(alternatives) ==
    [i \in 1..(1 + alternatives) |->
        [type |-> IF i = 1 THEN "primary" ELSE "alternative",
         state |-> "pending", sources |-> <<>>]]

\* How a search ends: _search_tavily returns its sources, or catches an
\* Exception and returns [], or ends with an exception it does not catch,
\* which gather hands back as that task's result.
TaskEnds(task, sources) ==
    {[task EXCEPT !.state = "returned", !.sources = sources],
     [task EXCEPT !.state = "failed"],
     [task EXCEPT !.state = "raised"]}

RECURSIVE CollectedUntilFailure(_)
CollectedUntilFailure(tasks) ==
    IF tasks = <<>> \/ Head(tasks).state = "raised" THEN <<>>
    ELSE Head(tasks).sources \o CollectedUntilFailure(Tail(tasks))

\* Lines 133-162: all_sources, built from search_results in task order; a
\* result that is an exception is skipped.
RECURSIVE Collected(_)
Collected(tasks) ==
    IF tasks = <<>> THEN <<>>
    ELSE (IF Head(tasks).state = "raised" THEN <<>> ELSE Head(tasks).sources)
         \o Collected(Tail(tasks))

QueryTypes == {"factual", "temporal"}

\* _deduplicate_and_rank, lines 257-278: the composite relevance score.
Relevance(source, query_type) ==
    source.score
    + (IF query_type = "temporal" /\ source.recent THEN 1 ELSE 0)
    + (IF source.long THEN 1 ELSE 0)

\* seen_urls: the first source of each URL, in order of first occurrence.
SeenUrls(sources) ==
    SelectSeq([i \in 1..Len(sources) |->
                  IF \E j \in 1..(i - 1) : sources[j].url = sources[i].url
                  THEN <<>> ELSE <<sources[i]>>],
              LAMBDA x : x # <<>>)

\* The first sources with their relevance_score set.
Scored(sources, query_type) ==
    LET seen == SeenUrls(sources)
    IN  [i \in 1..Len(seen) |->
            [url |-> seen[i][1].url, score |-> seen[i][1].score,
             relevance_score |-> Relevance(seen[i][1], query_type)]]

\* sorted(seen_urls.values(), key=relevance_score, reverse=True).
_deduplicate_and_rank(sources, query_type) ==
    LET scored == Scored(sources, query_type)
        by_url == [u \in {scored[i].url : i \in 1..Len(scored)} |->
                      CHOOSE s \in Range(scored) : s.url = u]
        keys   == [i \in 1..Len(scored) |-> scored[i].url]
        order  == SortedIds(keys, [u \in DOMAIN by_url |->
                                      by_url[u].relevance_score])
    IN  [i \in 1..Len(order) |-> by_url[order[i]]]

\* input.constraints.get("max_web_results", 5)
MaxWebResults(constraints) ==
    IF constraints = <<>> THEN DefaultMaxWebResults ELSE constraints[1]

\* unique_sources[:max_results]
TopSourcesUncut(unique_sources, max_results) == unique_sources

TopSources(unique_sources, max_results) ==
    SubSeq(unique_sources, 1, Min(max_results, Len(unique_sources)))

WebSearchStart ==
    /\ w_pc = "search"
    /\ w_tasks = <<>>
    /\ w_finished = <<>>
    /\ w_all_sources = <<>>
    /\ w_unique_sources = <<>>
    /\ w_result = <<>>

WebSearchInit ==
    /\ w_configured \in BOOLEAN
    /\ w_constraints \in {<<>>} \cup {<<n>> : n \in 1..MaxWebLimit}
    /\ w_query_type \in QueryTypes
    /\ WebSearchStart

WebSearchIdle ==
    /\ w_configured = FALSE
    /\ w_constraints = <<>>
    /\ w_query_type = "factual"
    /\ WebSearchStart

\* Lines 89-126: without a client the call returns []; otherwise the query
\* is expanded and one search per query is created.
W_Start ==
    /\ w_pc = "search"
    /\ IF ~w_configured
       THEN /\ w_pc' = "done"
            /\ UNCHANGED w_tasks
       ELSE /\ \E alternatives \in 0..DefaultMaxAlternatives :
                  w_tasks' = SearchTasks(alternatives)
            /\ w_pc' = "gather"
    /\ UNCHANGED <<w_configured, w_constraints, w_query_type, w_finished,
                   w_all_sources, w_unique_sources, w_result>>
    /\ UNCHANGED nonwebsearch

\* One of the searches under asyncio.gather ends, in any order.
W_SearchEnds ==
    /\ w_pc = "gather"
    /\ \E i \in 1..Len(w_tasks) :
          /\ w_tasks[i].state = "pending"
          /\ \E sources \in SearchSources(w_tasks) :
                \E ended \in TaskEnds(w_tasks[i], sources) :
                    w_tasks' = [w_tasks EXCEPT ![i] = ended]
          /\ w_finished' = Append(w_finished, i)
    /\ UNCHANGED <<w_pc, w_configured, w_constraints, w_query_type,
                   w_all_sources, w_unique_sources, w_result>>
    /\ UNCHANGED nonwebsearch

\* gather returns once every search has ended; lines 133-162.
W_Process ==
    /\ w_pc = "gather"
    /\ \A i \in 1..Len(w_tasks) : w_tasks[i].state # "pending"
    /\ w_all_sources' = Collected(w_tasks)
    /\ w_pc' = "rank"
    /\ UNCHANGED <<w_configured, w_constraints, w_query_type, w_tasks,
                   w_finished, w_unique_sources, w_result>>
    /\ UNCHANGED nonwebsearch

W_DeduplicateAndRank ==
    /\ w_pc = "rank"
    /\ w_unique_sources' = _deduplicate_and_rank(w_all_sources, w_query_type)
    /\ w_pc' = "format"
    /\ UNCHANGED <<w_configured, w_constraints, w_query_type, w_tasks,
                   w_finished, w_all_sources, w_result>>
    /\ UNCHANGED nonwebsearch

\* Lines 169-201: the cut and the returned dicts.
W_Format ==
    /\ w_pc = "format"
    /\ w_result' = TopSources(w_unique_sources, MaxWebResults(w_constraints))
    /\ w_pc' = "done"
    /\ UNCHANGED <<w_configured, w_constraints, w_query_type, w_tasks,
                   w_finished, w_all_sources, w_unique_sources>>
    /\ UNCHANGED nonwebsearch

WebSearchNext ==
    \/ W_Start
    \/ W_SearchEnds
    \/ W_Process
    \/ W_DeduplicateAndRank
    \/ W_Format

----------------------------------------------------------------------------
(* JSON recovery: agents/base.py, BaseAgent._parse_json_response *)

\* A response, as what each strategy makes of it.  A markdown strategy
\* without a closed fence parses nothing and raises nothing.
Responses ==
    [empty    : BOOLEAN,
     direct   : {"parsed", "fails"},
     markdown : {"parsed", "fails", "no_fence"},
     cleaned  : {"parsed", "fails"},
     regex    : {"parsed", "fails"},
     repaired : {"parsed", "fails"}]

\* "except ... as e" binds e for the handler and unbinds it when the
\* handler is left.
AfterHandler(e) == "unbound"

\* The strategies in the order they are tried.
Strategies == <<"direct", "markdown", "cleaned", "regex", "repaired">>

StrategyAfter(strategy) ==
    IF strategy = "repaired" THEN "raise"
    ELSE Strategies[1 + CHOOSE i \in 1..Len(Strategies) :
                            Strategies[i] = strategy]

ParseInit ==
    /\ j_pc = "check"
    /\ j_response \in Responses
    /\ j_e = "unbound"
    /\ j_outcome = "none"

ParseIdle ==
    /\ ParseInit
    /\ j_response = [empty |-> TRUE, direct |-> "fails", markdown |-> "fails",
                     cleaned |-> "fails", regex |-> "fails",
                     repaired |-> "fails"]

\* Lines 71-73: an empty response raises JSONDecodeError at once.
J_CheckEmpty ==
    /\ j_pc = "check"
    /\ IF j_response.empty
       THEN /\ j_outcome' = "JSONDecodeError"
            /\ j_pc' = "done"
       ELSE /\ j_pc' = "direct"
            /\ UNCHANGED j_outcome
    /\ UNCHANGED <<j_response, j_e>>
    /\ UNCHANGED nonparse

\* One recovery strategy: it returns the parsed value, or its handler for
\* JSONDecodeError runs, or (strategies 2 and 4) nothing is raised.
J_Strategy ==
    /\ j_pc \in Range(Strategies)
    /\ IF j_response[j_pc] = "parsed"
       THEN /\ j_outcome' = "returned"
            /\ j_pc' = "done"
            /\ UNCHANGED j_e
       ELSE /\ j_pc' = StrategyAfter(j_pc)
            /\ j_e' = IF j_response[j_pc] = "no_fence" \/ j_pc = "regex"
                      THEN j_e ELSE AfterHandler(j_e)
            /\ UNCHANGED j_outcome
    /\ UNCHANGED j_response
    /\ UNCHANGED nonparse

\* Lines 178-192: the log call formats e, then JSONDecodeError is raised.
J_Raise ==
    /\ j_pc = "raise"
    /\ j_outcome' = IF j_e = "unbound" THEN "UnboundLocalError"
                    ELSE "JSONDecodeError"
    /\ j_pc' = "done"
    /\ UNCHANGED <<j_response, j_e>>
    /\ UNCHANGED nonparse

ParseNext ==
    \/ J_CheckEmpty
    \/ J_Strategy
    \/ J_Raise

----------------------------------------------------------------------------
(* Memory store and chat deletion: services/agent_memory.py,               *)
(* services/chat_cleanup.py, agents/orchestrator.py _store_agent_memories  *)

Chats == {"c1", "c2"}

\* store_agent_memory, line 48: the namespace of an agent's episodic memory.
EpisodicNamespace(user_id, chat_id, agent_name) ==
    <<user_id, chat_id, "episodic", agent_name>>

\* store_semantic_memory, line 193.
SemanticNamespace(user_id, chat_id) == <<user_id, chat_id, "semantic">>

\* _delete_agent_memories, line 126: the agents whose namespaces are cleaned.
CleanupAgents == {"planner", "retrieval", "synthesis", "critic"}

\* Timelines a session hands to _store_agent_memories.
SessionTimelines ==
    {GraphTimeline(web, plan, raised) :
        web \in BOOLEAN, plan \in PlannerPlans, raised \in BOOLEAN}

CleanupInit ==
    /\ c_pc = "sessions"
    /\ memory_store = {}
    /\ chat_rows = {<<CallerUser, c>> : c \in Chats}
    /\ c_user_id = None
    /\ c_chat_id = None
    /\ c_outcome = "none"

CleanupIdle ==
    /\ c_pc = "done"
    /\ memory_store = {}
    /\ chat_rows = {}
    /\ c_user_id = None
    /\ c_chat_id = None
    /\ c_outcome = "none"

\* _store_agent_memories at the end of a session of CallerUser in a chat:
\* one put per timeline entry under the entry's agent_name, each failure
\* swallowed.
C_StoreAgentMemories ==
    /\ c_pc = "sessions"
    /\ \E chat \in Chats, timeline \in SessionTimelines :
        \E stored \in StoredMemories(timeline) :
            memory_store' = memory_store \cup
                {EpisodicNamespace(CallerUser, chat, a) : a \in stored}
    /\ UNCHANGED <<c_pc, chat_rows, c_user_id, c_chat_id, c_outcome>>
    /\ UNCHANGED noncleanup

\* delete_chat_completely, lines 55-66: the ownership check.
C_VerifyChat ==
    /\ c_pc = "sessions"
    /\ \E user \in Users, chat \in Chats :
        /\ c_user_id' = user
        /\ c_chat_id' = chat
        /\ IF <<user, chat>> \in chat_rows
           THEN /\ c_pc' = "memories"
                /\ UNCHANGED c_outcome
           ELSE /\ c_pc' = "done"
                /\ c_outcome' = "not_found"
    /\ UNCHANGED <<memory_store, chat_rows>>
    /\ UNCHANGED noncleanup

\* _delete_agent_memories: each listed namespace is searched and emptied;
\* a failure of one namespace is logged and the loop goes on.
C_DeleteAgentMemories ==
    /\ c_pc = "memories"
    /\ \E failed \in SUBSET (CleanupAgents \cup {"semantic"}) :
        memory_store' = memory_store \
            ({EpisodicNamespace(c_user_id, c_chat_id, a) :
                    a \in CleanupAgents \ failed}
             \cup (IF "semantic" \in failed THEN {}
                   ELSE {SemanticNamespace(c_user_id, c_chat_id)}))
    /\ c_pc' = "rows"
    /\ UNCHANGED <<chat_rows, c_user_id, c_chat_id, c_outcome>>
    /\ UNCHANGED noncleanup

\* delete_chat_completely, steps 2-6: embeddings, documents, sessions,
\* messages and the chat row; an exception of one of them propagates.
C_DeleteRows ==
    /\ c_pc = "rows"
    /\ \/ /\ chat_rows' = chat_rows \ {<<c_user_id, c_chat_id>>}
          /\ c_outcome' = "deleted"
       \/ /\ c_outcome' = "error"
          /\ UNCHANGED chat_rows
    /\ c_pc' = "done"
    /\ UNCHANGED <<memory_store, c_user_id, c_chat_id>>
    /\ UNCHANGED noncleanup

CleanupNext ==
    \/ C_StoreAgentMemories
    \/ C_VerifyChat
    \/ C_DeleteAgentMemories
    \/ C_DeleteRows

----------------------------------------------------------------------------
(* Embeddings of a list of texts: llm/gemini.py, services/ingestion.py *)

EmbedEntries == {"embed_texts", "embed_texts_async", "ingest_pdf"}

TextContents == {"a", "b"}

\* The dense vector the embedding model computes from one text.
Embedding(text) == <<"dense", text>>

\* texts[start : start + batch_size]; batch_size is 100 in the source and
\* BatchSize here.
Batch(texts, start) ==
    SubSeq(texts, start + 1, Min(start + BatchSize, Len(texts)))

\* What embed_content can answer for a batch: a result whose embeddings are
\* None, or one embedding per content, each with values or with values None.
BatchResponses(batch) ==
    {[has_embeddings |-> FALSE, embeddings |-> <<>>]}
    \cup {[has_embeddings |-> TRUE,
           embeddings |-> [i \in 1..Len(batch) |->
                             [has_values |-> given[i],
                              values |-> Embedding(batch[i])]]] :
            given \in [1..Len(batch) -> BOOLEAN]}

HasValues(e) == e.has_values

\* if result.embeddings is None: continue; otherwise
\* embeddings.extend([e.values for e in result.embeddings if e.values is not None])
Extended(embeddings, result) ==
    IF ~result.has_embeddings THEN embeddings
    ELSE LET kept == SelectSeq(result.embeddings, HasValues)
         IN  embeddings \o [i \in 1..Len(kept) |-> kept[i].values]

EmbedInit ==
    /\ e_entry \in EmbedEntries
    /\ e_texts \in ListsUpTo(TextContents, MaxTexts)
    /\ e_entry = "ingest_pdf" => e_texts # <<>>
    /\ e_pc = "embed"
    /\ e_start = 0
    /\ e_embeddings = <<>>
    /\ e_points = <<>>
    /\ e_outcome = "none"

EmbedIdle ==
    /\ EmbedInit
    /\ e_entry = "embed_texts"
    /\ e_texts = <<>>

\* One pass of the batch loop.
E_Batch ==
    /\ e_pc = "embed"
    /\ e_start < Len(e_texts)
    /\ \E result \in BatchResponses(Batch(e_texts, e_start)) :
          e_embeddings' = Extended(e_embeddings, result)
    /\ e_start' = e_start + BatchSize
    /\ UNCHANGED <<e_entry, e_pc, e_texts, e_points, e_outcome>>
    /\ UNCHANGED nonembed

\* return embeddings, to the caller or to ingest_pdf's gather.
E_Return ==
    /\ e_pc = "embed"
    /\ e_start >= Len(e_texts)
    /\ e_pc' = IF e_entry = "ingest_pdf" THEN "points" ELSE "done"
    /\ e_outcome' = IF e_entry = "ingest_pdf" THEN e_outcome ELSE "returned"
    /\ UNCHANGED <<e_entry, e_texts, e_start, e_embeddings, e_points>>
    /\ UNCHANGED nonembed

\* ingest_pdf, steps 5 and 6: point i pairs chunk i's content with
\* dense_embeddings[i]; a list shorter than the chunks raises IndexError
\* before anything is upserted.
E_Points ==
    /\ e_pc = "points"
    /\ IF Len(e_embeddings) < Len(e_texts)
       THEN /\ e_outcome' = "IndexError"
            /\ UNCHANGED e_points
       ELSE /\ e_points' = [i \in 1..Len(e_texts) |->
                              [content |-> e_texts[i],
                               dense |-> e_embeddings[i]]]
            /\ e_outcome' = "upserted"
    /\ e_pc' = "done"
    /\ UNCHANGED <<e_entry, e_texts, e_start, e_embeddings>>
    /\ UNCHANGED nonembed

EmbedNext ==
    \/ E_Batch
    \/ E_Return
    \/ E_Points

----------------------------------------------------------------------------
(* Ingestion of one image: services/image_ingestion.py *)

SUPPORTED_IMAGE_TYPES == {"image/jpeg", "image/png", "image/webp", "image/gif"}

MimeTypes == {"image/png", "image/gif", "text/plain"}

StoragePath == "users/u1/images/img1.png"

DocumentId == "doc1"

Descriptions == {"", "a"}

\* _delete_from_storage: a failing remove is logged and swallowed.
DeleteFromStorage(storage, storage_path, remove_ok) ==
    IF remove_ok THEN storage \ {storage_path} ELSE storage

DocData(request, description) ==
    [type |-> "image", image_url |-> StoragePath,
     mime_type |-> request.mime_type,
     description_preview |-> IF description # "" THEN description ELSE None,
     chat_id |-> request.chat_id]

\* The insert raises, returns no rows, returns a row without an id, or
\* returns the row with its id.
InsertOutcomes == {"raises", "no_data", "no_id", "ok"}

InsertRaised(o) ==
    IF o = "raises" THEN "InsertError"
    ELSE IF o = "no_data" THEN "ValueError"
    ELSE IF o = "no_id" THEN "ValueError"
    ELSE "none"

\* The row exists whenever the insert returned it.
Inserted(documents, o, row) ==
    IF o \in {"no_id", "ok"} THEN documents \cup {row} ELSE documents

\* What the embedding step can do: the dense list as embed_texts_async
\* returns it (one embedding, or none), or an error of one of the models.
DenseResults(description) == {<<>>, <<Embedding(description)>>}

IndexFailure(embed_ok, dense, upsert_ok) ==
    IF ~embed_ok THEN "EmbeddingError"
    ELSE IF dense = <<>> THEN "IndexError"
    ELSE IF ~upsert_ok THEN "UpsertError"
    ELSE "none"

Payload(description) ==
    [document_id |-> DocumentId, content |-> description, type |-> "image",
     image_url |-> StoragePath]

IngestInit ==
    /\ m_pc = "validate"
    /\ m_request \in [mime_type : MimeTypes, too_large : BOOLEAN,
                      chat_id : {None, "c1"}]
    /\ m_storage_path = None
    /\ m_description = None
    /\ m_storage = {}
    /\ m_documents = {}
    /\ m_points = {}
    /\ m_outcome = "none"

IngestIdle ==
    /\ IngestInit
    /\ m_request = [mime_type |-> "image/png", too_large |-> FALSE,
                    chat_id |-> None]

\* Lines 64-71: the MIME type and the size are checked before anything is
\* stored.
M_Validate ==
    /\ m_pc = "validate"
    /\ IF m_request.mime_type \notin SUPPORTED_IMAGE_TYPES \/ m_request.too_large
       THEN m_pc' = "done" /\ m_outcome' = "ValueError"
       ELSE m_pc' = "store" /\ UNCHANGED m_outcome
    /\ UNCHANGED <<m_request, m_storage_path, m_description, m_storage,
                   m_documents, m_points>>
    /\ UNCHANGED noningest

\* Step 1, _store_image: the upload, whose failure is re-raised.
M_Store ==
    /\ m_pc = "store"
    /\ \E upload_ok \in BOOLEAN :
          IF upload_ok
          THEN /\ m_storage' = m_storage \cup {StoragePath}
               /\ m_storage_path' = StoragePath
               /\ m_pc' = "describe"
               /\ UNCHANGED m_outcome
          ELSE /\ m_pc' = "done"
               /\ m_outcome' = "UploadError"
               /\ UNCHANGED <<m_storage, m_storage_path>>
    /\ UNCHANGED <<m_request, m_description, m_documents, m_points>>
    /\ UNCHANGED noningest

\* Step 2: the description, with the storage clean-up on failure.
M_Describe ==
    /\ m_pc = "describe"
    /\ \/ \E description \in Descriptions :
             /\ m_description' = description
             /\ m_pc' = "insert"
             /\ UNCHANGED <<m_storage, m_outcome>>
       \/ \E remove_ok \in BOOLEAN :
             /\ m_storage' = DeleteFromStorage(m_storage, m_storage_path, remove_ok)
             /\ m_pc' = "done"
             /\ m_outcome' = "RuntimeError"
             /\ UNCHANGED m_description
    /\ UNCHANGED <<m_request, m_storage_path, m_documents, m_points>>
    /\ UNCHANGED noningest

\* Step 3: the documents row; every failure removes the stored object and
\* raises.
M_Insert ==
    /\ m_pc = "insert"
    /\ \E o \in InsertOutcomes, remove_ok \in BOOLEAN :
          /\ m_documents' = Inserted(m_documents, o,
                                     DocData(m_request, m_description))
          /\ IF o = "ok"
             THEN /\ m_pc' = "index"
                  /\ UNCHANGED <<m_storage, m_outcome>>
             ELSE /\ m_storage' = DeleteFromStorage(m_storage, m_storage_path,
                                                    remove_ok)
                  /\ m_pc' = "done"
                  /\ m_outcome' = InsertRaised(o)
    /\ UNCHANGED <<m_request, m_storage_path, m_description, m_points>>
    /\ UNCHANGED noningest

\* Steps 4 to 6 under one try: embeddings, the point, the upsert; the except
\* clause removes the stored object, deletes the documents row and re-raises,
\* and a failing delete raises in its place.
M_Index ==
    /\ m_pc = "index"
    /\ \E embed_ok \in BOOLEAN, dense \in DenseResults(m_description),
          upsert_ok \in BOOLEAN, remove_ok \in BOOLEAN, delete_ok \in BOOLEAN :
          LET failure == IndexFailure(embed_ok, dense, upsert_ok)
          IN  IF failure = "none"
              THEN /\ m_points' = m_points \cup {Payload(m_description)}
                   /\ m_outcome' = "returned"
                   /\ UNCHANGED <<m_storage, m_documents>>
              ELSE /\ m_storage' = DeleteFromStorage(m_storage, m_storage_path,
                                                     remove_ok)
                   /\ m_documents' = IF delete_ok THEN {} ELSE m_documents
                   /\ m_outcome' = IF delete_ok THEN failure ELSE "DeleteError"
                   /\ UNCHANGED m_points
    /\ m_pc' = "done"
    /\ UNCHANGED <<m_request, m_storage_path, m_description>>
    /\ UNCHANGED noningest

IngestNext ==
    \/ M_Validate
    \/ M_Store
    \/ M_Describe
    \/ M_Insert
    \/ M_Index

----------------------------------------------------------------------------
(* Chat-scoped endpoints: api/chats.py, services/chat_cleanup.py *)

ChatOps == {"get_chat", "update_chat", "delete_chat", "get_chat_messages",
            "get_message_verification", "send_chat_query_stream",
            "get_chat_memory", "get_agent_memory_for_chat"}

\* The endpoints whose ownership query ends with .single().
SingleOps == {"get_chat", "send_chat_query_stream"}

ChatRow(id, user_id, title, thread_id) ==
    [id |-> id, user_id |-> user_id, title |-> title, thread_id |-> thread_id]

ChatTables ==
    {{ChatRow(c, owner[c], "old", thread[c]) : c \in Chats} :
        owner \in [Chats -> Users], thread \in [Chats -> {None, "thread"}]}

\* table("chats").select(...).eq("id", chat_id).eq("user_id", user_id)
SelectOwned(chats, chat_id, user_id) ==
    {r \in chats : r.id = chat_id /\ r.user_id = user_id}

\* How the ownership query ends.  A plain select returns its rows.  With
\* .single() a result that is not exactly one row is answered by the client
\* with an APIError; the handlers also test for a response without data, so
\* both endings are kept for the empty result.
QueryOutcomes(op, rows) ==
    IF rows # {} THEN {"row"}
    ELSE IF op \in SingleOps THEN {"raises", "no_data"}
    ELSE {"no_data"}

\* no data: HTTPException 404 (ValueError turned into 404 for delete_chat);
\* an exception of the query: the handler's except Exception answers 500.
VerifyResponse(outcome) ==
    IF outcome = "no_data" THEN "404"
    ELSE IF outcome = "raises" THEN "500"
    ELSE "none"

\* What the endpoint does to the chats table once the chat is verified.
ChatsAfter(op, chats, chat_id) ==
    IF op = "update_chat"
    THEN {IF r.id = chat_id THEN [r EXCEPT !.title = "new"] ELSE r : r \in chats}
    ELSE IF op = "delete_chat"
    THEN {r \in chats : r.id # chat_id}
    ELSE IF op = "send_chat_query_stream"
    THEN {IF r.id = chat_id /\ r.thread_id = None
          THEN [r EXCEPT !.thread_id = "chat-thread"] ELSE r : r \in chats}
    ELSE chats

\* What the endpoint reads or starts once the chat is verified.
EffectsOf(op) ==
    IF op \in {"get_chat_messages", "get_message_verification"}
    THEN {"messages_read"}
    ELSE IF op \in {"get_chat_memory", "get_agent_memory_for_chat"}
    THEN {"memory_read"}
    ELSE IF op = "send_chat_query_stream" THEN {"orchestrator_run"}
    ELSE IF op = "delete_chat" THEN {"chat_data_deleted"}
    ELSE {}

AccessInit ==
    /\ a_pc = "verify"
    /\ a_op \in ChatOps
    /\ a_user_id \in Users
    /\ a_chat_id \in Chats
    /\ a_chats \in ChatTables
    /\ a_before = a_chats
    /\ a_effects = {}
    /\ a_response = "none"

AccessIdle ==
    /\ AccessInit
    /\ a_op = "get_chat"
    /\ a_user_id = CallerUser
    /\ a_chat_id = CallerChat
    /\ a_chats = {ChatRow(c, CallerUser, "old", None) : c \in Chats}

\* The ownership query every endpoint starts with.
A_Verify ==
    /\ a_pc = "verify"
    /\ \E outcome \in QueryOutcomes(a_op,
                        SelectOwned(a_chats, a_chat_id, a_user_id)) :
          /\ a_response' = VerifyResponse(outcome)
          /\ a_pc' = IF outcome = "row" THEN "act" ELSE "done"
    /\ UNCHANGED <<a_op, a_user_id, a_chat_id, a_chats, a_before, a_effects>>
    /\ UNCHANGED nonaccess

\* The rest of the handler, on the verified chat.
A_Act ==
    /\ a_pc = "act"
    /\ a_chats' = ChatsAfter(a_op, a_chats, a_chat_id)
    /\ a_effects' = EffectsOf(a_op)
    /\ a_response' = "200"
    /\ a_pc' = "done"
    /\ UNCHANGED <<a_op, a_user_id, a_chat_id, a_before>>
    /\ UNCHANGED nonaccess

AccessNext ==
    \/ A_Verify
    \/ A_Act

----------------------------------------------------------------------------
(* Specifications *)

GraphIdle ==
    /\ GraphInit
    /\ use_web = FALSE
    /\ max_iterations = 0

Init == GraphInit /\ SearchIdle /\ StreamIdle /\ SynthesisIdle /\ PlannerIdle
    /\ CleanupIdle /\ NormalizeIdle /\ WebSearchIdle /\ ParseIdle /\ EmbedIdle /\ IngestIdle /\ AccessIdle

Next == GraphNext

SInit == GraphIdle /\ SearchInit /\ StreamIdle /\ SynthesisIdle /\ PlannerIdle
    /\ CleanupIdle /\ NormalizeIdle /\ WebSearchIdle /\ ParseIdle /\ EmbedIdle /\ IngestIdle /\ AccessIdle

SNext == SearchNext

SearchSpec == SInit /\ [][SNext]_vars

OInit == GraphIdle /\ SearchIdle /\ StreamInit /\ SynthesisIdle /\ PlannerIdle
    /\ CleanupIdle /\ NormalizeIdle /\ WebSearchIdle /\ ParseIdle /\ EmbedIdle /\ IngestIdle /\ AccessIdle

ONext == StreamNext

StreamSpec == OInit /\ [][ONext]_vars

YInit == GraphIdle /\ SearchIdle /\ StreamIdle /\ SynthesisInit /\ PlannerIdle
    /\ CleanupIdle /\ NormalizeIdle /\ WebSearchIdle /\ ParseIdle /\ EmbedIdle /\ IngestIdle /\ AccessIdle

YNext == SynthesisNext

SynthesisSpec == YInit /\ [][YNext]_vars

PInit == GraphIdle /\ SearchIdle /\ StreamIdle /\ SynthesisIdle /\ PlannerInit
    /\ CleanupIdle /\ NormalizeIdle /\ WebSearchIdle /\ ParseIdle /\ EmbedIdle /\ IngestIdle /\ AccessIdle

PNext == PlannerNext

PlannerSpec == PInit /\ [][PNext]_vars

CInit ==
    GraphIdle /\ SearchIdle /\ StreamIdle /\ SynthesisIdle /\ PlannerIdle
    /\ CleanupInit /\ NormalizeIdle /\ WebSearchIdle /\ ParseIdle /\ EmbedIdle /\ IngestIdle /\ AccessIdle

CNext == CleanupNext

CleanupSpec == CInit /\ [][CNext]_vars

NInit ==
    GraphIdle /\ SearchIdle /\ StreamIdle /\ SynthesisIdle /\ PlannerIdle
    /\ CleanupIdle /\ NormalizeInit /\ WebSearchIdle /\ ParseIdle /\ EmbedIdle /\ IngestIdle /\ AccessIdle

NNext == NormalizeNext

NormalizeSpec == NInit /\ [][NNext]_vars



JInit ==
    GraphIdle /\ SearchIdle /\ StreamIdle /\ SynthesisIdle /\ PlannerIdle
    /\ CleanupIdle /\ NormalizeIdle /\ WebSearchIdle /\ ParseInit /\ EmbedIdle /\ IngestIdle /\ AccessIdle

JNext == ParseNext

ParseSpec == JInit /\ [][JNext]_vars

EInit ==
    GraphIdle /\ SearchIdle /\ StreamIdle /\ SynthesisIdle /\ PlannerIdle
    /\ CleanupIdle /\ NormalizeIdle /\ WebSearchIdle /\ ParseIdle /\ EmbedInit /\ IngestIdle /\ AccessIdle

ENext == EmbedNext

EmbedSpec == EInit /\ [][ENext]_vars

MInit ==
    GraphIdle /\ SearchIdle /\ StreamIdle /\ SynthesisIdle /\ PlannerIdle
    /\ CleanupIdle /\ NormalizeIdle /\ WebSearchIdle /\ ParseIdle /\ EmbedIdle /\ IngestInit /\ AccessIdle

MNext == IngestNext

IngestSpec == MInit /\ [][MNext]_vars

AInit ==
    GraphIdle /\ SearchIdle /\ StreamIdle /\ SynthesisIdle /\ PlannerIdle
    /\ CleanupIdle /\ NormalizeIdle /\ WebSearchIdle /\ ParseIdle /\ EmbedIdle /\ IngestIdle /\ AccessInit

ANext == AccessNext

AccessSpec == AInit /\ [][ANext]_vars

WInit ==
    GraphIdle /\ SearchIdle /\ StreamIdle /\ SynthesisIdle /\ PlannerIdle
    /\ CleanupIdle /\ NormalizeIdle /\ WebSearchInit /\ ParseIdle /\ EmbedIdle /\ IngestIdle /\ AccessIdle

WNext == WebSearchNext

WebSearchSpec == WInit /\ [][WNext]_vars

Spec == Init /\ [][Next]_vars

\* Every node invocation returns and the engine keeps scheduling runnable nodes.
FairSpec == Init /\ [][Next]_vars /\ WF_vars(Next)

----------------------------------------------------------------------------
(* Claims about the research graph *)

RefineStatuses == {"low", "failed", "unverified"}

\* C1: in a run started with iteration_count = 0, critic_node executes at
\* most max_iterations + 1 times and iteration_count never exceeds
\* max_iterations + 1, in particular in the final state, whatever verdicts
\* the critic returns.
C1_CriticBounded ==
    /\ critic_runs <= max_iterations + 1
    /\ iteration_count <= max_iterations + 1
    /\ graph_done => iteration_count <= max_iterations + 1

\* A run that used the whole budget: max_iterations refinements, then END.
C1_Witness ==
    /\ graph_done
    /\ max_iterations >= 1
    /\ critic_runs = max_iterations + 1
    /\ iteration_count = max_iterations + 1

\* C2: a critic step sets needs_refinement exactly when the iteration count
\* it read is below max_iterations and the verdict is low, failed or
\* unverified; the conditional edge then makes synthesis runnable exactly
\* when needs_refinement is set and reaches END otherwise.
C2_RefinementGate ==
    [][critic_runs' = critic_runs + 1 =>
        /\ needs_refinement' =
              (iteration_count < max_iterations /\ verification' \in RefineStatuses)
        /\ (node'["synthesis"] = "ready") = needs_refinement'
        /\ graph_done' = ~needs_refinement']_vars

\* The critic asked for a refinement and the edge routed back to synthesis.
C2_Witness ==
    /\ critic_runs >= 1
    /\ needs_refinement
    /\ verification \in RefineStatuses
    /\ node["synthesis"] = "ready"
    /\ ~graph_done

\* C3: with every node returning and runnable nodes being scheduled, every
\* run reaches END; a run that hits the refinement cap (the critic ran
\* max_iterations + 1 times) is at END, an ordinary completion.
C3_Terminates ==
    /\ <>graph_done
    /\ [](critic_runs = max_iterations + 1 => graph_done)

\* The cap ended a run whose last verdict still asked for refinement.
C3_Witness ==
    /\ graph_done
    /\ critic_runs = max_iterations + 1
    /\ verification \in RefineStatuses
    /\ ~needs_refinement

\* C22: when the plan has an image_gen step and image generation returned
\* the public URL u, every synthesis pass that follows receives u: the
\* markdown image link for u is the last answer chunk it emits and is part
\* of the answer it returns, so the final answer contains the link.
C22_ImageLinkInAnswer ==
    (image_gen_url # None /\ synthesis_runs > 0) =>
        /\ answer_chunks # <<>>
        /\ answer_chunks[Len(answer_chunks)] = ImageMarkdown(image_gen_url)
        /\ ImageMarkdown(image_gen_url) \in Range(synthesis_answer)

\* C25: synthesis never starts before retrieval, web_search and image_gen
\* have all completed; after the fan-out it starts once; each further start
\* follows a loop-back from critic, and planning and the fan-out nodes are
\* never started a second time.
C25_FanInThenLoop ==
    /\ node_starts["synthesis"] > 0 => \A m \in FanOutNodes : node[m] = "done"
    /\ \A m \in FanOutNodes \cup {"planning"} : node_starts[m] <= 1
    /\ node_starts["synthesis"] <= critic_runs + 1
    /\ node_starts["synthesis"] + (IF node["synthesis"] = "ready" THEN 1 ELSE 0)
            = (IF \A m \in FanOutNodes : node[m] = "done" THEN 1 ELSE 0)
              + Cardinality({i \in 1..Len(write_log) :
                                /\ write_log[i].node = "critic"
                                /\ i < Len(write_log) \/ ~graph_done})

C25_Witness ==
    /\ graph_done
    /\ node_starts["synthesis"] > 1
    /\ \A m \in FanOutNodes : node_starts[m] = 1

\* Times x occurs in seq.
Occurrences(seq, x) == Cardinality({i \in 1..Len(seq) : seq[i] = x})

\* The state's value of a replace-reducer key a fan-out node writes.
FanOutField(key) ==
    IF key = "internal_sources" THEN internal_sources ELSE web_sources

FanOutAgents == {"retrieval", "web_search", "image_gen"}

\* C26: the dicts returned by retrieval, web_search and image_gen share no
\* key but agent_timeline, so once all three are done the state synthesis
\* sees is fixed by what each node returned, whatever the order in which
\* they finished: every replaced key holds its writer's value, and the
\* timeline holds exactly the entries the three nodes returned.
C26_FanOutConfluent ==
    /\ \A m1, m2 \in FanOutNodes :
          (m1 # m2 /\ fan_out_updates[m1] # <<>> /\ fan_out_updates[m2] # <<>>)
            => (DOMAIN fan_out_updates[m1][1] \cap DOMAIN fan_out_updates[m2][1])
                   \subseteq {"agent_timeline"}
    /\ (\A m \in FanOutNodes : node[m] = "done") =>
          /\ \A m \in FanOutNodes :
                \A key \in DOMAIN fan_out_updates[m][1]
                             \cap {"internal_sources", "web_sources"} :
                    FanOutField(key) = fan_out_updates[m][1][key]
          /\ \A a \in FanOutAgents :
                Occurrences(agent_timeline, a) =
                    Occurrences(fan_out_updates["retrieval"][1].agent_timeline
                                \o fan_out_updates["web_search"][1].agent_timeline
                                \o fan_out_updates["image_gen"][1].agent_timeline,
                                a)

C26_Witness ==
    /\ node_starts["synthesis"] > 0
    /\ internal_sources # <<>>
    /\ web_sources # <<>>
    /\ write_log[2].node = "image_gen"
    /\ write_log[3].node = "web_search"
    /\ write_log[4].node = "retrieval"
    /\ agent_timeline[2] = "image_gen"

\* C27: agent_timeline only grows by appending, also across loop-backs:
\* every step keeps the old timeline as a prefix. Every other key a node
\* returns replaces the stored value: after the step the key holds the
\* returned value, not a combination with the old one.
C27_TimelineAppendOnly ==
    [][/\ Len(agent_timeline') >= Len(agent_timeline)
       /\ SubSeq(agent_timeline', 1, Len(agent_timeline)) = agent_timeline
       /\ \A m \in FanOutNodes :
            fan_out_updates'[m] # fan_out_updates[m] =>
                \A key \in DOMAIN fan_out_updates'[m][1]
                             \cap {"internal_sources", "web_sources"} :
                    FanOutField(key)' = fan_out_updates'[m][1][key]
       /\ critic_runs' # critic_runs =>
            /\ iteration_count' = NextIterationCount(iteration_count)
            /\ verification' \in CriticStatuses \cup {CriticFailedStatus}
            /\ needs_refinement' =
                    NeedsRefinement(iteration_count, max_iterations,
                                    verification')
       /\ synthesis_runs' # synthesis_runs =>
            synthesis_result' \in {"answer", "refined"}]_vars

C27_Witness ==
    /\ Occurrences(agent_timeline, "synthesis") > 1
    /\ Occurrences(agent_timeline, "critic") > 1
    /\ agent_timeline[1] = "planner"
    /\ iteration_count > 1

\* Times a finished node returned key.
Writes(log, key) == Cardinality({i \in 1..Len(log) : key \in log[i].keys})

WrittenOnce == {"execution_plan", "internal_sources", "web_sources"}

FrameKeys == {"query", "user_id", "document_ids", "execution_plan",
              "internal_sources", "web_sources", "max_iterations"}

\* C28: execution_plan, internal_sources and web_sources are each written
\* at most once in a run, and a step of synthesis_node or critic_node
\* returns none of query, user_id, document_ids, execution_plan,
\* internal_sources, web_sources, max_iterations and leaves them unchanged.
C28_InputsFrozen ==
    [][/\ \A key \in WrittenOnce : Writes(write_log', key) <= 1
       /\ (synthesis_runs' # synthesis_runs \/ critic_runs' # critic_runs) =>
            /\ write_log'[Len(write_log')].node \in {"synthesis", "critic"}
            /\ write_log'[Len(write_log')].keys \cap FrameKeys = {}
            /\ UNCHANGED <<execution_plan, internal_sources, web_sources,
                           max_iterations>>]_vars

C28_Witness ==
    /\ graph_done
    /\ synthesis_runs > 1
    /\ critic_runs > 1
    /\ internal_sources # <<>>
    /\ web_sources # <<>>
    /\ \A key \in WrittenOnce : Writes(write_log, key) = 1

C35_CriticNeverRaises ==
    [][critic_runs' # critic_runs =>
        /\ iteration_count' = iteration_count + 1
        /\ node'["critic"] = "done"
        /\ write_log'[Len(write_log')] =
              [node |-> "critic",
               keys |-> {"verification", "needs_refinement",
                         "iteration_count", "agent_timeline"}]
        /\ verification' = CriticFailedStatus =>
              /\ ~needs_refinement'
              /\ agent_timeline' = agent_timeline
              /\ graph_done'
              /\ node'["synthesis"] # "ready"]_vars

\* A run that was refined once and whose second critic pass raised.
C35_Witness ==
    /\ graph_done
    /\ verification = CriticFailedStatus
    /\ critic_runs = 2
    /\ iteration_count = 2
    /\ iteration_count <= max_iterations
    /\ Occurrences(agent_timeline, "critic") = 1

----------------------------------------------------------------------------
(* Claims about hybrid search *)

\* C4: every query search_with_rrf sends to the index, dense or sparse,
\* carries the must-condition user_id = the calling user, whether
\* document_ids is None, empty or non-empty; and every chunk it returns has
\* the caller's user_id in its payload.
C4_UserFilter ==
    /\ \A i \in 1..Len(s_queries) : s_queries[i].query_filter.user_id = s_user_id
    /\ s_pc = "done" =>
          {s_queries[i].using : i \in 1..Len(s_queries)} = {"dense", "sparse"}
    /\ \A i \in 1..Len(search_results) :
          Points[search_results[i].chunk_id].user_id = s_user_id

\* A search restricted to documents that include another user's document
\* ran both queries and returned chunks.
C4_Witness ==
    /\ s_pc = "done"
    /\ s_document_ids.given
    /\ \E d \in s_document_ids.ids :
          \E p \in PointIds : Points[p].document_id = d /\ Points[p].user_id # s_user_id
    /\ Len(s_queries) = 2
    /\ search_results # <<>>

\* The fused ranking before the top_k cut: sorted_ids.
FusedRanking == SortedIds(ScoreKeys(dense_points, sparse_points),
                          rrf_scores(dense_points, sparse_points))

\* C19: after the fusion with K = 60 the fused ranking, before the top_k
\* cut, holds each chunk id of the union of the dense and sparse lists
\* exactly once and nothing else, and a chunk in both lists has a fused
\* score strictly greater than its score from either list alone; the
\* returned results are the head of that ranking with those scores.
C19_FusionIsPermutation ==
    s_pc = "done" =>
        LET both  == Range(dense_points) \cap Range(sparse_points)
            union == Range(dense_points) \cup Range(sparse_points)
            score == rrf_scores(dense_points, sparse_points)
        IN  /\ Range(FusedRanking) = union
            /\ Len(FusedRanking) = Cardinality(union)
            /\ \A p \in both :
                  /\ score[p] > RRFScale \div (RRF_K + RankIn(dense_points, p))
                  /\ score[p] > RRFScale \div (RRF_K + RankIn(sparse_points, p))
            /\ Len(search_results) = Min(s_top_k, Len(FusedRanking))
            /\ \A i \in 1..Len(search_results) :
                  /\ search_results[i].chunk_id = FusedRanking[i]
                  /\ search_results[i].chunk_id \in both =>
                        /\ search_results[i].score >
                              RRFScale \div (RRF_K + RankIn(dense_points, FusedRanking[i]))
                        /\ search_results[i].score >
                              RRFScale \div (RRF_K + RankIn(sparse_points, FusedRanking[i]))

\* A fusion of two different lists that share a chunk, ranked differently
\* in each, with more candidates than top_k.
C19_Witness ==
    /\ s_pc = "done"
    /\ dense_points # sparse_points
    /\ \E p \in Range(dense_points) \cap Range(sparse_points) :
          RankIn(dense_points, p) # RankIn(sparse_points, p)
    /\ \E p \in Range(dense_points) : p \notin Range(sparse_points)
    /\ Cardinality(Range(dense_points) \cup Range(sparse_points)) > s_top_k
    /\ search_results # <<>>

----------------------------------------------------------------------------
(* Claims about the orchestrator entry points and the chat streams *)

ChatDocuments(user_id, chat_id) ==
    {d \in Docs : DocumentRows[d].chat_id = chat_id /\ DocumentRows[d].user_id = user_id}

Types(evs) == {evs[i].type : i \in 1..Len(evs)}

StatusTypes == {"node_complete", "agent_status"}

\* Positions of node n's status events with the given status.
StatusAt(n, status) ==
    {i \in 1..Len(events) : /\ events[i].type \in StatusTypes
                            /\ events[i].node = n
                            /\ events[i].status = status}

\* Positions of the events that carry the work of node n.
ProducedBy(n) ==
    {i \in 1..Len(events) : /\ events[i].type \in {"thought_chunk", "answer_chunk", "sources"}
                            /\ events[i].from = n}

\* C5: when the orchestrator is called with a chat_id, the document_ids
\* that reach retrieval are a subset of the documents of that chat owned by
\* the caller, whatever list the caller submitted.
C5_ChatScopedDocuments ==
    (WithContext(o_entry) /\ retrieval_docs.reached /\ retrieval_docs.given) =>
        retrieval_docs.ids \subseteq ChatDocuments(CallerUser, CallerChat)

\* C6: in the event stream of a streaming session, for every node X the
\* status = running event of X comes before every thought_chunk,
\* answer_chunk and sources event carrying X's work, and all of those come
\* before X's status = complete event.
C6_NodeEventsBracketed ==
    Streaming(o_entry) =>
        \A n \in {"planning", "retrieval", "web_search", "synthesis", "critic"} :
            \A j \in ProducedBy(n) :
                /\ \E i \in StatusAt(n, "running") : i < j
                /\ \A k \in StatusAt(n, "complete") : j < k

\* C7: in every caller-facing stream that emits complete (the orchestrator's
\* research streams, the chat query stream, the image-generation stream),
\* complete is the last event; nothing, title_updated included, follows it.
C7_CompleteIsLast ==
    \A i \in 1..Len(events) : events[i].type = "complete" => i = Len(events)

\* C8: in every caller-facing stream an error event is the last event, and
\* no stream holds both a complete event and an error event.
C8_ErrorIsTerminal ==
    /\ \A i \in 1..Len(events) : events[i].type = "error" => i = Len(events)
    /\ ~({"complete", "error"} \subseteq Types(events))

\* The chat stream received the orchestrator's complete, failed to store
\* the message, and ended with error as its only terminal event.
C8_Witness ==
    /\ o_entry = "chat_stream"
    /\ o_pc = "done"
    /\ session.status = "completed"
    /\ ~message_row
    /\ Len(events) > 1
    /\ events[Len(events)].type = "error"
    /\ "complete" \notin Types(events)

\* C9: every streaming research session emits a message_id event before
\* its first status event, that is before any node of the pipeline starts.
C9_MessageIdFirst ==
    Streaming(o_entry) =>
        \A j \in 1..Len(events) :
            events[j].type \in StatusTypes =>
                \E i \in 1..(j - 1) : events[i].type = "message_id"

\* C11: if the caller cancels a streaming session while synthesis is
\* emitting chunks, the session row has gone from running to failed, and no
\* episodic memory and no message row was written for the session.
C11_CancelMarksFailed ==
    (/\ o_outcome = "cancelled"
     /\ events # <<>>
     /\ Len(events) \in ProducedBy("synthesis")) =>
        /\ session.status = "failed"
        /\ memories = {}
        /\ ~message_row

\* C12: in a streaming session whose critic timed out, a status event
\* {critic, timeout} was emitted and synthesis was started only once; and if
\* nothing else went wrong, the session ends with the row completed and
\* with complete, carrying confidence = timeout, as its last event.
C12_CriticTimeoutCompletes ==
    (Streaming(o_entry) /\ "critic_timeout" \in o_exceptions) =>
        /\ StatusAt("critic", "timeout") # {}
        /\ Cardinality(StatusAt("synthesis", "running")) = 1
        /\ (/\ o_pc = "done"
            /\ o_exceptions = {"critic_timeout"}
            /\ o_outcome \notin {"cancelled", "chat_error"}) =>
                /\ o_outcome = "completed"
                /\ session.status = "completed"
                /\ events[Len(events)].type = "complete"
                /\ events[Len(events)].confidence = "timeout"

\* A chat stream whose critic timed out ended with complete.
C12_Witness ==
    /\ o_entry = "chat_stream"
    /\ o_pc = "done"
    /\ o_exceptions = {"critic_timeout"}
    /\ session.status = "completed"
    /\ message_row
    /\ events[Len(events)].type = "complete"
    /\ events[Len(events)].confidence = "timeout"

\* C13: with use_web = false the web search step contributes nothing and
\* the web search agent (provider call and query expansion) is not invoked,
\* for every plan: web_search_node skips for every plan of the planner, no
\* session's timeline has a web_search entry, and a streaming session has
\* neither a web_search status event nor a sources event from web search.
C13_NoWebWhenDisabled ==
    /\ \A plan \in PlannerPlans : ~WebSearchRuns(FALSE, plan)
    /\ ~o_request.use_web =>
          /\ "web_search" \notin Range(o_timeline)
          /\ \A i \in 1..Len(events) :
                /\ events[i].node # "web_search"
                /\ events[i].from # "web_search"
          /\ o_pc \notin {"web_start", "web_search"}

\* A streaming session whose plan has a web step went from retrieval
\* straight to synthesis because the caller disabled web search.
C13_Witness ==
    /\ Streaming(o_entry)
    /\ ~o_request.use_web
    /\ o_plan_web
    /\ o_pc = "synthesis"
    /\ "retrieval" \in Range(o_timeline)

\* C16: with max_iterations = 2 (the default of the streaming entry points),
\* a session whose first critic pass returns a low verdict is routed back
\* to synthesis once: when it has completed, the stream holds exactly 2
\* synthesis completions and 2 critic completions.
C16_RefinedOnce ==
    (/\ Streaming(o_entry)
     /\ o_pc = "done"
     /\ o_outcome = "completed"
     /\ StatusAt("critic", "complete") # {}
     /\ o_verification = "low") =>
        /\ Cardinality(StatusAt("synthesis", "complete")) = 2
        /\ Cardinality(StatusAt("critic", "complete")) = 2

\* C20: when research_with_context or research_stream_with_context has
\* ended, a successful end left episodic memories of the session in the
\* store, and memories of the session exist only if its row ended with
\* status completed: none is left behind for a failed session.
C20_MemoriesIffCompleted ==
    (WithContext(o_entry) /\ o_pc = "done") =>
        /\ o_outcome = "completed" => memories # {}
        /\ memories # {} => session.status = "completed"

\* C10: if an exception is raised in research, research_stream,
\* research_with_context or research_stream_with_context after the session
\* row was created, then when the call has ended the row has status failed
\* and carries the error message, and a streaming variant has emitted an
\* error event; in particular the row is not left in status running.
C10_ExceptionMarksFailed ==
    (o_pc = "done" /\ o_exceptions # {}) =>
        /\ session = [status |-> "failed", result |-> "error"]
        /\ Streaming(o_entry) => "error" \in Types(events)

\* Position of the last event of a type, 0 when there is none.
LastOf(type) ==
    LET at == {i \in 1..Len(events) : events[i].type = type}
    IN  IF at = {} THEN 0 ELSE CHOOSE i \in at : \A j \in at : j <= i

\* C23: in a streaming session that reaches its complete event, the last
\* sources event comes strictly after the last answer_chunk and carries the
\* same sources list as the complete event.
C23_FinalSourcesAuthoritative ==
    (Streaming(o_entry) /\ LastOf("complete") > 0) =>
        /\ LastOf("sources") > LastOf("answer_chunk")
        /\ events[LastOf("sources")].sources =
                events[LastOf("complete")].sources

C23_Witness ==
    /\ Streaming(o_entry)
    /\ LastOf("complete") > 0
    /\ LastOf("answer_chunk") > 0
    /\ o_internal_sources # <<>>
    /\ o_web_sources # <<>>
    /\ \E i \in 1..Len(events) :
          /\ events[i].type = "sources"
          /\ i < LastOf("answer_chunk")
          /\ events[i].sources # events[LastOf("complete")].sources

\* C36: the research_sessions row only moves running -> completed or
\* running -> failed: the first status written is running, and once
\* completed was written no later write sets failed, whatever fails after
\* it (agent-log write, memory store, title generation, chat-title update).
C36_CompletedIsFinal ==
    /\ session_writes # <<>> => session_writes[1] = "running"
    /\ \A i, k \in 1..Len(session_writes) :
          (i < k /\ session_writes[i] = "completed") =>
              session_writes[k] # "failed"

\* C37: when a chat stream ends with a complete event, the answer stored
\* with the messages row equals the answer stored in the research_sessions
\* result, and both equal the concatenation of the answer_chunk contents
\* that were streamed, also when the LLM stream raised after some chunks.
C37_StoredAnswersAgree ==
    (/\ o_entry = "chat_stream"
     /\ session.status = "completed"
     /\ events # <<>>
     /\ events[Len(events)].type = "complete")
        => /\ o_answer.message = o_answer.session
           /\ o_answer.message = <<o_answer.accumulated_answer>>

----------------------------------------------------------------------------
(* Claims about synthesis *)

Count(items, type) == Cardinality({i \in 1..Len(items) : items[i] = type})

\* C14: after a synthesis pass, every ordinal N cited as [Source N] in the
\* answer is a key of source_map, and the entry it maps to is one of the
\* internal or web sources given to the pass, whatever the LLM wrote.
C14_CitationsResolve ==
    y_result # <<>> =>
        \A n \in SourcesUsed(y_result[1].answer) :
            /\ n \in DOMAIN y_result[1].source_map
            /\ y_result[1].source_map[n].ref \in
                  Range(internal_context) \cup Range(web_context)

\* C15: a finished run_stream call has yielded at least one answer_chunk
\* and exactly one complete item, which is the last item, for every
\* behaviour of the LLM stream.
C15_StreamShape ==
    (y_mode = "run_stream" /\ y_pc = "done") =>
        /\ Count(y_items, "answer_chunk") >= 1
        /\ Count(y_items, "complete") = 1
        /\ y_items[Len(y_items)] = "complete"
        /\ \A i \in 1..Len(y_items) :
              y_items[i] \in {"thought_chunk", "answer_chunk", "complete"}

----------------------------------------------------------------------------
(* Claims about the planner *)

\* C17: every ExecutionPlan PlannerAgent.run returns has a non-empty steps
\* list with a step whose tool is synthesis, for every LLM response.
C17_PlanHasSynthesis ==
    p_outcome = "returned" =>
        /\ p_plan # <<>>
        /\ "synthesis" \in Range(p_plan)

\* C18: when the LLM output cannot be parsed into a plan (no recovery
\* strategy parses it, or the parsed value is not a well-formed plan
\* object, for instance a step with an unknown tool), PlannerAgent.run
\* does not raise and returns the default plan with steps [rag, synthesis].
C18_MalformedGivesDefault ==
    (/\ p_pc = "done"
     /\ \/ p_response.kind \in {"unparseable", "not_object"}
        \/ UnknownTool \in Range(p_response.steps)) =>
        /\ p_outcome = "returned"
        /\ p_plan = DefaultSteps

----------------------------------------------------------------------------
(* Claims about the memory store and chat deletion *)

\* Namespaces of the store that start with (user_id, chat_id).
ChatNamespaces(user_id, chat_id) ==
    {ns \in memory_store : ns[1] = user_id /\ ns[2] = chat_id}

\* C21: once delete_chat_completely(chat_id, user_id) has returned
\* successfully, the memory store holds no item in a namespace that starts
\* with (user_id, chat_id), whatever sessions ran in the chat before.
C21_DeleteLeavesNoMemory ==
    c_outcome = "deleted" => ChatNamespaces(c_user_id, c_chat_id) = {}

----------------------------------------------------------------------------
(* Claims about the order of the fused results *)

\* The order of the chunk ids as strings.
ChunkIdRank == [p \in PointIds |->
                  CASE p = "p1" -> 1 [] p = "p2" -> 2 [] p = "p3" -> 3
                    [] OTHER -> 4]

\* C29: the list search_with_rrf returns is ordered by rrf_score descending
\* and, among equal scores, by chunk_id ascending.
C29_RankedByScoreThenId ==
    s_pc = "done" =>
        \A i, j \in 1..Len(search_results) :
            i < j =>
                \/ search_results[i].score > search_results[j].score
                \/ /\ search_results[i].score = search_results[j].score
                   /\ ChunkIdRank[search_results[i].chunk_id]
                        < ChunkIdRank[search_results[j].chunk_id]

----------------------------------------------------------------------------
(* Claims about source normalization *)

\* C24: normalizing is idempotent: the normalized list, split back by type
\* into internal and web entries and normalized again, is the same list,
\* for web sources with and without relevance_score.
C24_NormalizeIdempotent ==
    n_pc = "done" => n_twice = n_once

C24_Witness ==
    /\ n_pc = "done"
    /\ n_internal # <<>>
    /\ Len(n_web) = MaxSourceList
    /\ "relevance_score" \in DOMAIN n_web[1]
    /\ "relevance_score" \notin DOMAIN n_web[MaxSourceList]
    /\ "score" \in DOMAIN n_web[MaxSourceList]
    /\ n_once # n_internal \o n_web

----------------------------------------------------------------------------
(* Claims about the keys of source_map *)

\* C32: with n internal sources, m web sources and p images, the keys of
\* source_map are exactly the ordinals 1..n+m+p (internal, then web, then
\* images).
C32_OneOrdinalSpace ==
    y_pc # "start" =>
        SourceMapKeys(source_map, image_map) =
            {IntKey(n) : n \in 1..(Len(internal_context) + Len(web_context)
                                    + Len(y_images))}

----------------------------------------------------------------------------
(* Claims about web search *)

\* C30: the result of WebSearchAgent.run has pairwise distinct URLs, at
\* most max_web_results entries (5 when the constraint is absent), and is
\* sorted by relevance_score in descending order.
C30_WebResultRanked ==
    w_pc = "done" =>
        /\ \A i, j \in 1..Len(w_result) :
              i # j => w_result[i].url # w_result[j].url
        /\ Len(w_result) <= MaxWebResults(w_constraints)
        /\ \A i, j \in 1..Len(w_result) :
              i < j => w_result[i].relevance_score >= w_result[j].relevance_score

\* A call whose searches returned a URL twice and more unique sources than
\* the limit, in an order the ranking had to change.
C30_Witness ==
    /\ w_pc = "done"
    /\ Len(w_all_sources) > Len(w_unique_sources)
    /\ Len(w_unique_sources) > Len(w_result)
    /\ w_result # <<>>
    /\ w_result[1].url # w_all_sources[1].url

\* The sources of the searches that returned, in the order of the searches.
RECURSIVE ReturnedInOrder(_)
ReturnedInOrder(tasks) ==
    IF tasks = <<>> THEN <<>>
    ELSE ReturnedInOrder(SubSeq(tasks, 1, Len(tasks) - 1))
         \o (IF tasks[Len(tasks)].state = "returned"
             THEN tasks[Len(tasks)].sources ELSE <<>>)

\* C31: the searches of one call end in any order, and a search that fails
\* neither raises out of run nor stops the others: all_sources is every
\* source of every search that returned, in task order, a failed search
\* adds none, and each of these sources has its URL among the ranked ones.
C31_FailedSearchesIsolated ==
    (w_configured /\ w_pc \in {"format", "done"}) =>
        /\ \A i \in 1..Len(w_tasks) : w_tasks[i].state # "pending"
        /\ w_all_sources = ReturnedInOrder(w_tasks)
        /\ \A i \in 1..Len(w_tasks) :
              /\ w_tasks[i].state = "returned" =>
                    \A k \in 1..Len(w_tasks[i].sources) :
                        /\ w_tasks[i].sources[k] \in Range(w_all_sources)
                        /\ \E u \in 1..Len(w_unique_sources) :
                              w_unique_sources[u].url = w_tasks[i].sources[k].url
              /\ w_tasks[i].state # "returned" => w_tasks[i].sources = <<>>

\* A finished call in which the first search to end failed and a search
\* created after it returned a source that is part of the result.
C31_Witness ==
    /\ w_pc = "done"
    /\ Len(w_tasks) > 2
    /\ w_finished[1] = 1
    /\ w_tasks[1].state = "raised"
    /\ w_tasks[2].state = "failed"
    /\ w_tasks[3].state = "returned"
    /\ w_tasks[3].sources # <<>>
    /\ w_result # <<>>
    /\ w_result[1].url = w_tasks[3].sources[1].url

----------------------------------------------------------------------------
(* Claims about JSON recovery *)

\* C34: _parse_json_response returns the parsed value or raises
\* JSONDecodeError; no other exception type leaves it, in particular for a
\* non-empty response on which every recovery strategy fails.
C34_OnlyJSONDecodeError ==
    j_outcome \in {"none", "returned", "JSONDecodeError"}

----------------------------------------------------------------------------
(* Claims about embeddings *)

\* C38: embed_texts and embed_texts_async return one embedding per input
\* text, in input order, whatever the batch responses are; so the dense
\* vector ingest_pdf stores with chunk i was computed from chunk i's text.
C38_OneEmbeddingPerText ==
    /\ e_pc \in {"points", "done"} =>
          /\ Len(e_embeddings) = Len(e_texts)
          /\ \A i \in 1..Len(e_texts) : e_embeddings[i] = Embedding(e_texts[i])
    /\ \A i \in 1..Len(e_points) :
          e_points[i].dense = Embedding(e_points[i].content)

----------------------------------------------------------------------------
(* Claims about image ingestion *)

\* C39: ingest_image is all-or-nothing: when it raises after the upload
\* succeeded, the uploaded object has been removed and neither a documents
\* row nor an index point of the image remains; when it returns, the stored
\* object, the documents row and the index point all exist.
C39_AllOrNothing ==
    /\ (m_pc = "done" /\ m_outcome # "returned" /\ m_storage_path # None) =>
          /\ m_storage = {}
          /\ m_documents = {}
          /\ m_points = {}
    /\ m_outcome = "returned" =>
          /\ m_storage # {}
          /\ m_documents # {}
          /\ m_points # {}

----------------------------------------------------------------------------
(* Claims about the chat-scoped endpoints *)

\* C40: a chat-scoped request for a chat owned by another user fails with
\* not-found and changes nothing: no chats row is updated or deleted, no
\* messages or memory are read and no orchestrator run is started.
C40_OnlyOwnChats ==
    (/\ a_pc = "done"
     /\ \E r \in a_before : r.id = a_chat_id /\ r.user_id # a_user_id)
        => /\ a_response = "404"
           /\ a_chats = a_before
           /\ a_effects = {}

=========================================================================
